---------------------------- MODULE Spec2Model ----------------------------
(***************************************************************************)
(* A model of colors.py: the colour type with its memoised perceptual      *)
(* distance, the palette (ColorMap), the 9x9 Tile, the Screen compositor   *)
(* with separator splicing, and the MakeSubset grid builder.               *)
(*                                                                         *)
(* Colours are 4-tuples <<r, g, b, a>> of bytes; Color.bytes() is that     *)
(* tuple read as a sequence of 4 bytes.  Pixel rows are flat sequences of  *)
(* bytes, 4 per pixel, as the code builds them.  Python indices are        *)
(* 0-based; sequences here are 1-based, so an access seq[i] of the code is *)
(* seq[i + 1] here.                                                        *)
(***************************************************************************)
EXTENDS Integers, Sequences, FiniteSets, TLC

VARIABLES
  cache,    \* Color.distance_from's _cache: <<self, other>> -> result
  calls,    \* how often delta_e_cie2000 ran, per ordered pair <<self, other>>
  scr,      \* the Screen object in use
  ret,      \* what the last finished operation returned or raised
  pc,       \* MakeSubset's position: "idle" when no call is running
  args,     \* the running MakeSubset call's arguments
  loc,      \* the running MakeSubset call's local variables
  outfile,  \* the file at png_out
  made      \* how many calls the process has made so far

vars == <<cache, calls, scr, ret, pc, args, loc, outfile, made>>

(* None, where a colour, a pattern or a name may stand. *)
None == <<>>

(* An operation's outcome: the value returned, or the exception raised. *)
NoExc == "None"

Return(v) == [exc |-> NoExc, value |-> v]

Raise(e) == [exc |-> e, value |-> <<>>]

Min(a, b) == IF a < b THEN a ELSE b

Max(a, b) == IF a > b THEN a ELSE b

(* Python slices s[:n], s[n:], s[-n:] for 0 <= n, clamped as Python does. *)
Take(s, n) == SubSeq(s, 1, Min(n, Len(s)))

Drop(s, n) == SubSeq(s, Min(n, Len(s)) + 1, Len(s))

LastN(s, n) == SubSeq(s, Max(Len(s) - n, 0) + 1, Len(s))

(***************************************************************************)
(* The loops of the code are recursive operators that carry the loop's     *)
(* state st from pass to pass.  TLC evaluates an operator's arguments on   *)
(* demand; each pass therefore evaluates the state it was handed before    *)
(* it starts the next one, as the statements of the code do.               *)
(***************************************************************************)
Evaluated(x) == x = x

RECURSIVE Concat(_)
(* b"".join(parts) and list.extend over a list of sequences. *)
Concat(parts) ==
  IF Len(parts) = 0 THEN <<>>
  ELSE IF Len(parts) = 1 THEN parts[1]
  ELSE LET mid == Len(parts) \div 2
       IN Concat(SubSeq(parts, 1, mid)) \o Concat(SubSeq(parts, mid + 1, Len(parts)))

RECURSIVE InsertDesc(_, _)
InsertDesc(x, s) ==
  IF s = <<>> THEN <<x>>
  ELSE IF x >= Head(s) THEN <<x>> \o s
  ELSE <<Head(s)>> \o InsertDesc(x, Tail(s))

RECURSIVE SortedDesc(_)
(* sorted(s, reverse=True) on integers. *)
SortedDesc(s) ==
  IF s = <<>> THEN <<>> ELSE InsertDesc(Head(s), SortedDesc(Tail(s)))

---------------------------------------------------------------------------
(* class Color *)

Color(r, g, b, a) == <<r, g, b, a>>

RGB(r, g, b) == Color(r, g, b, 255)

bytes(c) == <<c[1], c[2], c[3], c[4]>>

bright(c) ==
  IF c[1] = 255 /\ c[2] = 255 /\ c[3] = 255 THEN RGB(192, 192, 192)
  ELSE RGB((c[1] + 255) \div 2, (c[2] + 255) \div 2, (c[3] + 255) \div 2)

dim(c) ==
  IF c[1] = 0 /\ c[2] = 0 /\ c[3] = 0 THEN RGB(64, 64, 64)
  ELSE RGB(c[1] \div 2, c[2] \div 2, c[3] \div 2)

faded(c) == Color(64 + c[1] \div 2, 64 + c[2] \div 2, 64 + c[3] \div 2, c[4])

(* colormath's sRGBColor(r, g, b): the alpha channel is not passed on. *)
sRGBColor(c) == <<c[1], c[2], c[3]>>

(***************************************************************************)
(* colormath.color_diff.delta_e_cie2000 is an external library function:   *)
(* the CIEDE2000 difference of two colours, here of the Lab conversions    *)
(* that convert_color makes of two sRGB triples (colormath's sRGB matrix,  *)
(* 0.412424 0.357579 0.180464 / 0.212656 0.715158 0.0721856 /              *)
(* 0.0193324 0.119193 0.950444, and its D65 white 0.95047 1 1.08883).      *)
(* Its arithmetic is floating point; the model holds its values in         *)
(* thousandths, rounded, for the pairs of colours that the module's load   *)
(* and the calls of the model pass to it: each palette colour with its     *)
(* bright() and dim(), each palette colour with each colour off the        *)
(* palette that is looked up, and the pairs of the colours that            *)
(* distance_from is called with.  A colour is named by the number          *)
(* 65536 * r + 256 * g + b, and a row is <<c1, c2>> :> value.              *)
(***************************************************************************)
DeltaE2000 ==
  (  (<<0, 8355711>> :> 39554 @@ <<0, 4210752>> :> 17562)
   @@ (<<3947580, 10329501>> :> 37348 @@ <<3947580, 1973790>> :> 9554)
   @@ (<<7895160, 12303291>> :> 21443 @@ <<7895160, 3947580>> :> 21453)
   @@ (<<11184810, 13948116>> :> 10903 @@ <<11184810, 5592405>> :> 32700)
   @@ (<<13816530, 15263976>> :> 4974 @@ <<13816530, 6908265>> :> 33022)
   @@ (<<16777215, 12632256>> :> 14120 @@ <<16777215, 8355711>> :> 33592)
   @@ (<<6291480, 11501451>> :> 36147 @@ <<6291480, 3145740>> :> 11388)
   @@ (<<10817054, 13797006>> :> 32090 @@ <<10817054, 5375759>> :> 16767)
   @@ (<<15539236, 16158097>> :> 22204 @@ <<15539236, 7736850>> :> 24221)
   @@ (<<16416882, 16564152>> :> 15609 @@ <<16416882, 8208441>> :> 33523))
  @@
  (  (<<14965786, 15838604>> :> 20489 @@ <<14965786, 7482893>> :> 27031)
   @@ (<<16744231, 16760723>> :> 16594 @@ <<16744231, 8339219>> :> 33923)
   @@ (<<16165385, 16438404>> :> 13441 @@ <<16165385, 8082692>> :> 34059)
   @@ (<<16375099, 16576157>> :> 10694 @@ <<16375099, 8154653>> :> 34497)
   @@ (<<16775868, 16776413>> :> 7655 @@ <<16775868, 8355166>> :> 34015)
   @@ (<<10257457, 13484440>> :> 20323 @@ <<10257457, 5128728>> :> 26062)
   @@ (<<12954929, 14866072>> :> 14252 @@ <<12954929, 6444568>> :> 34100)
   @@ (<<15258719, 15985071>> :> 11012 @@ <<15258719, 7629359>> :> 34056)
   @@ (<<4877114, 10794396>> :> 29107 @@ <<4877114, 2438429>> :> 18211)
   @@ (<<5936202, 11323812>> :> 20163 @@ <<5936202, 2968101>> :> 26175))
  @@
  (  (<<8701299, 12706489>> :> 13119 @@ <<8701299, 4350521>> :> 34013)
   @@ (<<964968, 8838323>> :> 14570 @@ <<964968, 482356>> :> 33537)
   @@ (<<1304187, 9040573>> :> 11003 @@ <<1304187, 619325>> :> 34337)
   @@ (<<8912734, 12844974>> :> 10777 @@ <<8912734, 4423471>> :> 34715)
   @@ (<<819566, 8765622>> :> 23005 @@ <<819566, 409655>> :> 21459)
   @@ (<<1093286, 8902354>> :> 13473 @@ <<1093286, 546643>> :> 31871)
   @@ (<<1302974, 9040094>> :> 8628 @@ <<1302974, 618591>> :> 34244)
   @@ (<<1014175, 8895695>> :> 23617 @@ <<1014175, 474191>> :> 20862)
   @@ (<<6354930, 11533304>> :> 7498 @@ <<6354930, 3177337>> :> 34204)
   @@ (<<12319474, 14548216>> :> 7491 @@ <<12319474, 6126969>> :> 33863))
  @@
  (  (<<2642078, 9676750>> :> 33270 @@ <<2642078, 1321039>> :> 15535)
   @@ (<<4232164, 10471921>> :> 16609 @@ <<4232164, 2115954>> :> 28655)
   @@ (<<8243199, 12510207>> :> 10259 @@ <<8243199, 4088703>> :> 33832)
   @@ (<<5059000, 10918107>> :> 35813 @@ <<5059000, 2496604>> :> 15560)
   @@ (<<7033078, 11905018>> :> 25862 @@ <<7033078, 3483771>> :> 21486)
   @@ (<<10072571, 13424893>> :> 12195 @@ <<10072571, 5003389>> :> 33849)
   @@ (<<4866692, 10789057>> :> 36607 @@ <<4866692, 2433346>> :> 14288)
   @@ (<<8024516, 12368097>> :> 22592 @@ <<8024516, 4012130>> :> 23675)
   @@ (<<11906801, 14341880>> :> 12248 @@ <<11906801, 5920632>> :> 33668)
   @@ (<<7867545, 12289484>> :> 32830 @@ <<7867545, 3933772>> :> 14973))
  @@
  (  (<<11155641, 13933532>> :> 25352 @@ <<11155641, 5577820>> :> 20908)
   @@ (<<14721017, 15716348>> :> 12938 @@ <<14721017, 7360380>> :> 34017)
   @@ (<<13303930, 15040444>> :> 21999 @@ <<13303930, 6619197>> :> 20631)
   @@ (<<15474560, 16093119>> :> 19086 @@ <<15474560, 7737152>> :> 24703)
   @@ (<<15961513, 16369364>> :> 13852 @@ <<15961513, 7947860>> :> 33923)
   @@ (<<10179145, 13478052>> :> 27766 @@ <<10179145, 5056804>> :> 19174)
   @@ (<<13729912, 15253435>> :> 17088 @@ <<13729912, 6832188>> :> 30350)
   @@ (<<16430756, 16571089>> :> 10692 @@ <<16430756, 8215378>> :> 33626)
   @@ (<<6833716, 11772569>> :> 35698 @@ <<6833716, 3416858>> :> 14004)
   @@ (<<9791530, 13284244>> :> 25202 @@ <<9791530, 4862997>> :> 21273))
  @@
  (  (<<14394467, 15585713>> :> 13911 @@ <<14394467, 7164465>> :> 33751)
   @@ (<<8086354, 12431784>> :> 26899 @@ <<8086354, 4010281>> :> 18576)
   @@ (<<10257515, 13484469>> :> 18668 @@ <<10257515, 5128757>> :> 25973)
   @@ (<<14071188, 15391433>> :> 10872 @@ <<14071188, 7035466>> :> 33504)
   @@ (<<13729873, 15253416>> :> 17989 @@ <<13729873, 6832168>> :> 30034)
   @@ (<<16298615, 16505019>> :> 12144 @@ <<16298615, 8149307>> :> 33790)
   @@ (<<16762277, 16769746>> :> 9689 @@ <<16762277, 8348242>> :> 33876)
   @@ (<<7169087, 11973023>> :> 28228 @@ <<7169087, 3551775>> :> 17873)
   @@ (<<9735275, 13223349>> :> 17883 @@ <<9735275, 4867637>> :> 26961)
   @@ (<<13485470, 15131342>> :> 9253 @@ <<13485470, 6709839>> :> 33574))
  @@
  (  (<<3356993, 10067104>> :> 37882 @@ <<3356993, 1645600>> :> 9361)
   @@ (<<7173517, 11975366>> :> 22885 @@ <<7173517, 3553862>> :> 21404)
   @@ (<<11778513, 14277864>> :> 9746 @@ <<11778513, 5856360>> :> 33325)
   @@ (<<0, 66051>> :> 579 @@ <<3947580, 66051>> :> 15988)
   @@ (<<7895160, 66051>> :> 36657 @@ <<11184810, 66051>> :> 56889)
   @@ (<<13816530, 66051>> :> 76152 @@ <<16777215, 66051>> :> 99470)
   @@ (<<6291480, 66051>> :> 26530 @@ <<10817054, 66051>> :> 35761)
   @@ (<<15539236, 66051>> :> 47628 @@ <<16416882, 66051>> :> 59845)
   @@ (<<14965786, 66051>> :> 51241 @@ <<16744231, 66051>> :> 61083)
   @@ (<<16165385, 66051>> :> 69964 @@ <<16375099, 66051>> :> 86952))
  @@
  (  (<<16775868, 66051>> :> 98367 @@ <<10257457, 66051>> :> 48019)
   @@ (<<12954929, 66051>> :> 64211 @@ <<15258719, 66051>> :> 80963)
   @@ (<<4877114, 66051>> :> 35641 @@ <<5936202, 66051>> :> 48519)
   @@ (<<8701299, 66051>> :> 66540 @@ <<964968, 66051>> :> 59567)
   @@ (<<1304187, 66051>> :> 76954 @@ <<8912734, 66051>> :> 91113)
   @@ (<<819566, 66051>> :> 41351 @@ <<1093286, 66051>> :> 55914)
   @@ (<<1302974, 66051>> :> 75350 @@ <<1014175, 66051>> :> 38708)
   @@ (<<6354930, 66051>> :> 87736 @@ <<12319474, 66051>> :> 93371)
   @@ (<<2642078, 66051>> :> 32005 @@ <<4232164, 66051>> :> 50749)
   @@ (<<8243199, 66051>> :> 69632 @@ <<5059000, 66051>> :> 32959))
  @@
  (  (<<7033078, 66051>> :> 42342 @@ <<10072571, 66051>> :> 64284)
   @@ (<<4866692, 66051>> :> 29156 @@ <<8024516, 66051>> :> 43455)
   @@ (<<11906801, 66051>> :> 65050 @@ <<7867545, 66051>> :> 31708)
   @@ (<<11155641, 66051>> :> 40470 @@ <<14721017, 66051>> :> 66554)
   @@ (<<13303930, 66051>> :> 40990 @@ <<15474560, 66051>> :> 47286)
   @@ (<<15961513, 66051>> :> 62212 @@ <<10179145, 66051>> :> 37825)
   @@ (<<13729912, 66051>> :> 53303 @@ <<16430756, 66051>> :> 72990)
   @@ (<<6833716, 66051>> :> 27271 @@ <<9791530, 66051>> :> 40770)
   @@ (<<14394467, 66051>> :> 63059 @@ <<8086354, 66051>> :> 33260)
   @@ (<<10257515, 66051>> :> 44904 @@ <<14071188, 66051>> :> 66445))
  @@
  (  (<<13729873, 66051>> :> 53253 @@ <<16298615, 66051>> :> 71274)
   @@ (<<16762277, 66051>> :> 78254 @@ <<7169087, 66051>> :> 33238)
   @@ (<<9735275, 66051>> :> 46364 @@ <<13485470, 66051>> :> 70744)
   @@ (<<3356993, 66051>> :> 15554 @@ <<7173517, 66051>> :> 37205)
   @@ (<<11778513, 66051>> :> 64785 @@ <<0, 16764672>> :> 82770)
   @@ (<<3947580, 16764672>> :> 63507 @@ <<7895160, 16764672>> :> 40135)
   @@ (<<11184810, 16764672>> :> 31254 @@ <<13816530, 16764672>> :> 29290)
   @@ (<<16777215, 16764672>> :> 30704 @@ <<6291480, 16764672>> :> 79057)
   @@ (<<10817054, 16764672>> :> 61322 @@ <<15539236, 16764672>> :> 51587)
   @@ (<<16416882, 16764672>> :> 41525 @@ <<14965786, 16764672>> :> 38361))
  @@
  (  (<<16744231, 16764672>> :> 29729 @@ <<16165385, 16764672>> :> 11756)
   @@ (<<16375099, 16764672>> :> 5639 @@ <<16775868, 16764672>> :> 19020)
   @@ (<<10257457, 16764672>> :> 24487 @@ <<12954929, 16764672>> :> 11989)
   @@ (<<15258719, 16764672>> :> 8621 @@ <<4877114, 16764672>> :> 44999)
   @@ (<<5936202, 16764672>> :> 35864 @@ <<8701299, 16764672>> :> 29623)
   @@ (<<964968, 16764672>> :> 37917 @@ <<1304187, 16764672>> :> 36397)
   @@ (<<8912734, 16764672>> :> 30827 @@ <<819566, 16764672>> :> 47687)
   @@ (<<1093286, 16764672>> :> 43588 @@ <<1302974, 16764672>> :> 40256)
   @@ (<<1014175, 16764672>> :> 60481 @@ <<6354930, 16764672>> :> 42493)
   @@ (<<12319474, 16764672>> :> 36702 @@ <<2642078, 16764672>> :> 73250))
  @@
  (  (<<4232164, 16764672>> :> 59313 @@ <<8243199, 16764672>> :> 57571)
   @@ (<<5059000, 16764672>> :> 84604 @@ <<7033078, 16764672>> :> 78900)
   @@ (<<10072571, 16764672>> :> 56262 @@ <<4866692, 16764672>> :> 75483)
   @@ (<<8024516, 16764672>> :> 66047 @@ <<11906801, 16764672>> :> 56418)
   @@ (<<7867545, 16764672>> :> 86094 @@ <<11155641, 16764672>> :> 77561)
   @@ (<<14721017, 16764672>> :> 64118 @@ <<13303930, 16764672>> :> 72153)
   @@ (<<15474560, 16764672>> :> 67187 @@ <<15961513, 16764672>> :> 51844)
   @@ (<<10179145, 16764672>> :> 49593 @@ <<13729912, 16764672>> :> 40723)
   @@ (<<16430756, 16764672>> :> 31475 @@ <<6833716, 16764672>> :> 52944)
   @@ (<<9791530, 16764672>> :> 33742 @@ <<14394467, 16764672>> :> 18170))
  @@
  (  (<<8086354, 16764672>> :> 41915 @@ <<10257515, 16764672>> :> 30673)
   @@ (<<14071188, 16764672>> :> 21407 @@ <<13729873, 16764672>> :> 30720)
   @@ (<<16298615, 16764672>> :> 20048 @@ <<16762277, 16764672>> :> 24668)
   @@ (<<7169087, 16764672>> :> 40326 @@ <<9735275, 16764672>> :> 28794)
   @@ (<<13485470, 16764672>> :> 20181 @@ <<3356993, 16764672>> :> 69358)
   @@ (<<7173517, 16764672>> :> 50901 @@ <<11778513, 16764672>> :> 41997)
   @@ (<<0, 0>> :> 0 @@ <<3947580, 0>> :> 16269)
   @@ (<<7895160, 0>> :> 36923 @@ <<11184810, 0>> :> 57121)
   @@ (<<13816530, 0>> :> 76326 @@ <<16777215, 0>> :> 100000)
   @@ (<<6291480, 0>> :> 26533 @@ <<10817054, 0>> :> 35656))
  @@
  (  (<<15539236, 0>> :> 47573 @@ <<16416882, 0>> :> 59907)
   @@ (<<14965786, 0>> :> 51189 @@ <<16744231, 0>> :> 61067)
   @@ (<<16165385, 0>> :> 69895 @@ <<16375099, 0>> :> 86867)
   @@ (<<16775868, 0>> :> 98572 @@ <<10257457, 0>> :> 47929)
   @@ (<<12954929, 0>> :> 64134 @@ <<15258719, 0>> :> 80907)
   @@ (<<4877114, 0>> :> 35679 @@ <<5936202, 0>> :> 48556)
   @@ (<<8701299, 0>> :> 66599 @@ <<964968, 0>> :> 59652)
   @@ (<<1304187, 0>> :> 77006 @@ <<8912734, 0>> :> 91078)
   @@ (<<819566, 0>> :> 41615 @@ <<1093286, 0>> :> 56198)
   @@ (<<1302974, 0>> :> 75534 @@ <<1014175, 0>> :> 39125))
  @@
  (  (<<6354930, 0>> :> 87926 @@ <<12319474, 0>> :> 93579)
   @@ (<<2642078, 0>> :> 33407 @@ <<4232164, 0>> :> 51384)
   @@ (<<8243199, 0>> :> 69948 @@ <<5059000, 0>> :> 36012)
   @@ (<<7033078, 0>> :> 44987 @@ <<10072571, 0>> :> 64872)
   @@ (<<4866692, 0>> :> 30752 @@ <<8024516, 0>> :> 44892)
   @@ (<<11906801, 0>> :> 65679 @@ <<7867545, 0>> :> 34946)
   @@ (<<11155641, 0>> :> 43029 @@ <<14721017, 0>> :> 67827)
   @@ (<<13303930, 0>> :> 42007 @@ <<15474560, 0>> :> 47926)
   @@ (<<15961513, 0>> :> 62615 @@ <<10179145, 0>> :> 37829)
   @@ (<<13729912, 0>> :> 53391 @@ <<16430756, 0>> :> 73043))
  @@
  (  (<<6833716, 0>> :> 27179 @@ <<9791530, 0>> :> 40715)
   @@ (<<14394467, 0>> :> 63089 @@ <<8086354, 0>> :> 33315)
   @@ (<<10257515, 0>> :> 44994 @@ <<14071188, 0>> :> 66526)
   @@ (<<13729873, 0>> :> 53259 @@ <<16298615, 0>> :> 71304)
   @@ (<<16762277, 0>> :> 78294 @@ <<7169087, 0>> :> 33224)
   @@ (<<9735275, 0>> :> 46451 @@ <<13485470, 0>> :> 70827)
   @@ (<<3356993, 0>> :> 15977 @@ <<7173517, 0>> :> 37572)
   @@ (<<11778513, 0>> :> 65054 @@ <<0, 1976370>> :> 11797)
   @@ (<<3947580, 1976370>> :> 9637 @@ <<7895160, 1976370>> :> 28773)
   @@ (<<11184810, 1976370>> :> 49799 @@ <<13816530, 1976370>> :> 68928))
  @@
  (  (<<16777215, 1976370>> :> 76913 @@ <<6291480, 1976370>> :> 29361)
   @@ (<<10817054, 1976370>> :> 36151 @@ <<15539236, 1976370>> :> 45943)
   @@ (<<16416882, 1976370>> :> 55934 @@ <<14965786, 1976370>> :> 48684)
   @@ (<<16744231, 1976370>> :> 57843 @@ <<16165385, 1976370>> :> 66747)
   @@ (<<16375099, 1976370>> :> 81302 @@ <<16775868, 1976370>> :> 80428)
   @@ (<<10257457, 1976370>> :> 46371 @@ <<12954929, 1976370>> :> 62332)
   @@ (<<15258719, 1976370>> :> 77432 @@ <<4877114, 1976370>> :> 32927)
   @@ (<<5936202, 1976370>> :> 45131 @@ <<8701299, 1976370>> :> 62689)
   @@ (<<964968, 1976370>> :> 55130 @@ <<1304187, 1976370>> :> 72944)
   @@ (<<8912734, 1976370>> :> 82171 @@ <<819566, 1976370>> :> 34345))
  @@
  (  (<<1093286, 1976370>> :> 48161 @@ <<1302974, 1976370>> :> 69361)
   @@ (<<1014175, 1976370>> :> 28704 @@ <<6354930, 1976370>> :> 75907)
   @@ (<<12319474, 1976370>> :> 76547 @@ <<2642078, 1976370>> :> 19707)
   @@ (<<4232164, 1976370>> :> 40575 @@ <<8243199, 1976370>> :> 61734)
   @@ (<<5059000, 1976370>> :> 19479 @@ <<7033078, 1976370>> :> 29105)
   @@ (<<10072571, 1976370>> :> 55312 @@ <<4866692, 1976370>> :> 17552)
   @@ (<<8024516, 1976370>> :> 31875 @@ <<11906801, 1976370>> :> 56472)
   @@ (<<7867545, 1976370>> :> 21700 @@ <<11155641, 1976370>> :> 30957)
   @@ (<<14721017, 1976370>> :> 58174 @@ <<13303930, 1976370>> :> 38080)
   @@ (<<15474560, 1976370>> :> 44277 @@ <<15961513, 1976370>> :> 57294))
  @@
  (  (<<10179145, 1976370>> :> 35263 @@ <<13729912, 1976370>> :> 48933)
   @@ (<<16430756, 1976370>> :> 68594 @@ <<6833716, 1976370>> :> 25828)
   @@ (<<9791530, 1976370>> :> 38341 @@ <<14394467, 1976370>> :> 59079)
   @@ (<<8086354, 1976370>> :> 28947 @@ <<10257515, 1976370>> :> 39773)
   @@ (<<14071188, 1976370>> :> 61750 @@ <<13729873, 1976370>> :> 49460)
   @@ (<<16298615, 1976370>> :> 67377 @@ <<16762277, 1976370>> :> 72975)
   @@ (<<7169087, 1976370>> :> 30933 @@ <<9735275, 1976370>> :> 41743)
   @@ (<<13485470, 1976370>> :> 66368 @@ <<3356993, 1976370>> :> 5900)
   @@ (<<7173517, 1976370>> :> 27617 @@ <<11778513, 1976370>> :> 57353)
   @@ (<<0, 16777215>> :> 100000 @@ <<0, 592137>> :> 1428))
  @@
  (  (<<16777215, 16777215>> :> 0 @@ <<16777215, 592137>> :> 97055)
   @@ (<<66051, 0>> :> 579 @@ <<66051, 16777215>> :> 99470)
   @@ (<<66051, 66051>> :> 0 @@ <<66051, 16764672>> :> 82858)
   @@ (<<66051, 592137>> :> 1240 @@ <<16764672, 0>> :> 82770)
   @@ (<<16764672, 16777215>> :> 30704 @@ <<16764672, 66051>> :> 82858)
   @@ (<<16764672, 16764672>> :> 0 @@ <<16764672, 592137>> :> 81981)
   @@ (<<592137, 0>> :> 1428 @@ <<592137, 16777215>> :> 97055)
   @@ (<<592137, 66051>> :> 1240 @@ <<592137, 16764672>> :> 81981)
   @@ (<<592137, 592137>> :> 0))

delta_e_cie2000(c1, c2) ==
  DeltaE2000[<<65536 * c1[1] + 256 * c1[2] + c1[3],
               65536 * c2[1] + 256 * c2[2] + c2[3]>>]

(* A memo is the pair of _cache and the count of delta_e_cie2000 runs. *)
Bump(cnt, key) ==
  IF key \in DOMAIN cnt THEN [cnt EXCEPT ![key] = @ + 1] ELSE cnt @@ (key :> 1)

(* distance_from without the lookup under the reversed key. *)
DistanceFromOrderedKey(memo, self, other) ==
  IF <<self, other>> \in DOMAIN memo.cache
    THEN [result |-> memo.cache[<<self, other>>], memo |-> memo]
  ELSE LET key == <<self, other>>
           result == delta_e_cie2000(sRGBColor(self), sRGBColor(other))
       IN [result |-> result,
           memo |-> [cache |-> memo.cache @@ (key :> result),
                     calls |-> Bump(memo.calls, key)]]

distance_from(memo, self, other) ==
  IF <<self, other>> \in DOMAIN memo.cache
    THEN [result |-> memo.cache[<<self, other>>], memo |-> memo]
  ELSE IF <<other, self>> \in DOMAIN memo.cache
    THEN [result |-> memo.cache[<<other, self>>], memo |-> memo]
  ELSE LET key == <<self, other>>
           result == delta_e_cie2000(sRGBColor(self), sRGBColor(other))
       IN [result |-> result,
           memo |-> [cache |-> memo.cache @@ (key :> result),
                     calls |-> Bump(memo.calls, key)]]

highlight(memo, self) ==
  LET a == bright(self)
      b == dim(self)
      da == distance_from(memo, self, a)
      db == distance_from(da.memo, self, b)
  IN [result |-> IF da.result > db.result THEN a ELSE b, memo |-> db.memo]

black == RGB(0, 0, 0)

white == RGB(255, 255, 255)

---------------------------------------------------------------------------
(* class Tile *)

(* The pattern pass writes fg at cell (i, j): some "X" of the pattern,    *)
(* at row pi and column pj, has off + pi and off + pj index that cell.    *)
(* An index k of a list of 9 entries is entry k, or entry k + 9 for a     *)
(* negative k.                                                            *)
PatternHits(pattern, off, i, j) ==
  \E pi \in DOMAIN pattern : \E pj \in DOMAIN pattern[pi] :
    /\ pattern[pi][pj] = "X"
    /\ off + pi - 1 \in {i, i - 9}
    /\ off + pj - 1 \in {j, j - 9}

(* Every "X" of the pattern indexes a cell of the 9 x 9 list. *)
PatternFits(pattern, off) ==
  \A pi \in DOMAIN pattern : \A pj \in DOMAIN pattern[pi] :
    pattern[pi][pj] = "X" =>
      /\ -9 <= off + pi - 1 /\ off + pi - 1 < 9
      /\ -9 <= off + pj - 1 /\ off + pj - 1 < 9

(* The colour Tile.__init__ leaves at cell (i, j), 0-based: the last of   *)
(* the background fill, the highlight pass, the shadow pass and the       *)
(* pattern pass that writes the cell.                                     *)
TileCell(bg, fg, pattern, hl, shadow, i, j) ==
  IF /\ pattern # <<>> /\ fg # None
     /\ PatternHits(pattern, (9 - Len(pattern)) \div 2, i, j)
    THEN fg
  ELSE IF shadow # None /\ ((j = 0 /\ i <= 7) \/ (i = 8 /\ j <= 7))
    THEN shadow
  ELSE IF hl # None /\ ((i = 0 /\ j >= 1) \/ (j = 8 /\ i >= 1))
    THEN hl
  ELSE bg

(* Tile(...): the tile, or the IndexError of a pattern that does not fit. *)
Tile(bg, fg, pattern, hl, shadow, name, pay) ==
  IF /\ pattern # <<>> /\ fg # None
     /\ ~ PatternFits(pattern, (9 - Len(pattern)) \div 2)
    THEN Raise("IndexError")
  ELSE Return([colors |-> [i \in 1..9 |->
                             [j \in 1..9 |->
                                TileCell(bg, fg, pattern, hl, shadow,
                                         i - 1, j - 1)]],
               name |-> name,
               pay |-> pay])

(* Tile.draw: 9 rows of 36 bytes, or the exception it raises.  Color has  *)
(* no attribute named fade, so the fade branch raises AttributeError at   *)
(* the first cell.                                                        *)
TileDraw(tile, fade, halo) ==
  IF fade THEN Raise("AttributeError")
  ELSE LET colors == tile.colors
           haloed == [i \in 1..9 |->
                        [j \in 1..9 |->
                           IF i = 1 \/ i = 9 \/ j = 1 \/ j = 9
                             THEN halo ELSE colors[i][j]]]
           shown == IF halo # None THEN haloed ELSE colors
       IN Return([i \in 1..9 |->
                    Concat([j \in 1..9 |-> bytes(shown[i][j])])])

blank_tile == Tile(black, None, <<>>, None, None, None, FALSE).value

---------------------------------------------------------------------------
(* The palette table, the font, and the module-level objects built from   *)
(* them when colors.py is loaded.  A string of the source is the sequence *)
(* of its characters.                                                     *)

color_values ==
  <<
     [htmlcolor |-> <<"0","0","0","0","0","0">>,
      pattern |-> <<"X",".",".",".","X","/",".","X",".","X",".","/",".",".","X",".",".","/",".","X",".","X",".","/","X",".",".",".","X">>,
      name |-> "Black", pay |-> FALSE],
     [htmlcolor |-> <<"3","c","3","c","3","c">>,
      pattern |-> <<".",".",".",".",".","/","X","X","X","X","X","/",".","X","X","X",".","/",".",".","X",".",".","/",".",".",".",".",".">>,
      name |-> "Dark Gray", pay |-> FALSE],
     [htmlcolor |-> <<"7","8","7","8","7","8">>,
      pattern |-> <<".",".",".",".",".","/","X","X","X","X","X","/",".",".",".",".",".","/","X","X","X","X","X","/",".",".",".",".",".">>,
      name |-> "Gray", pay |-> FALSE],
     [htmlcolor |-> <<"a","a","a","a","a","a">>,
      pattern |-> <<".","X","X",".","X","/","X",".","X","X",".","/",".",".",".",".",".","/",".","X","X",".","X","/","X",".","X","X",".">>,
      name |-> "Medium Gray", pay |-> TRUE],
     [htmlcolor |-> <<"d","2","d","2","d","2">>,
      pattern |-> <<".",".",".",".",".","/",".",".","X",".",".","/",".","X",".","X",".","/","X",".",".",".","X","/",".",".",".",".",".">>,
      name |-> "Light Gray", pay |-> FALSE],
     [htmlcolor |-> <<"f","f","f","f","f","f">>,
      pattern |-> <<".",".",".",".",".","/",".",".",".",".",".","/",".",".","X",".",".","/",".",".",".",".",".","/",".",".",".",".",".">>,
      name |-> "White", pay |-> FALSE],
     [htmlcolor |-> <<"6","0","0","0","1","8">>,
      pattern |-> <<".",".","X",".",".","/",".",".",".",".",".","/","X","X","X","X","X","/",".",".",".",".",".","/",".",".","X",".",".">>,
      name |-> "Deep Red", pay |-> FALSE],
     [htmlcolor |-> <<"a","5","0","e","1","e">>,
      pattern |-> <<"X","X","X",".",".","/","X",".","X",".",".","/","X","X","X","X","X","/",".",".","X",".","X","/",".",".","X","X","X">>,
      name |-> "Dark Red", pay |-> TRUE],
     [htmlcolor |-> <<"e","d","1","c","2","4">>,
      pattern |-> <<".","X","X","X",".","/","X",".",".",".","X","/","X",".",".",".","X","/","X",".",".",".","X","/",".","X","X","X",".">>,
      name |-> "Red", pay |-> FALSE],
     [htmlcolor |-> <<"f","a","8","0","7","2">>,
      pattern |-> <<".",".",".",".",".","/",".",".",".","X",".","/",".",".","X","X",".","/",".","X","X","X",".","/",".",".",".",".",".">>,
      name |-> "Light Red", pay |-> TRUE],
     [htmlcolor |-> <<"e","4","5","c","1","a">>,
      pattern |-> <<".",".","X",".",".","/",".","X","X","X",".","/","X","X","X","X","X","/",".","X","X","X",".","/",".",".","X",".",".">>,
      name |-> "Dark Orange", pay |-> TRUE],
     [htmlcolor |-> <<"f","f","7","f","2","7">>,
      pattern |-> <<".",".","X",".",".","/",".",".","X",".",".","/","X","X",".","X","X","/",".",".","X",".",".","/",".",".","X",".",".">>,
      name |-> "Orange", pay |-> FALSE],
     [htmlcolor |-> <<"f","6","a","a","0","9">>,
      pattern |-> <<".",".",".",".",".","/",".","X","X","X",".","/",".","X",".","X",".","/",".","X","X","X",".","/",".",".",".",".",".">>,
      name |-> "Gold", pay |-> FALSE],
     [htmlcolor |-> <<"f","9","d","d","3","b">>,
      pattern |-> <<".",".","X",".",".","/",".",".","X",".",".","/","X",".","X",".","X","/",".","X","X","X",".","/",".",".","X",".",".">>,
      name |-> "Yellow", pay |-> FALSE],
     [htmlcolor |-> <<"f","f","f","a","b","c">>,
      pattern |-> <<".",".","X",".",".","/",".","X",".","X",".","/","X",".",".",".","X","/",".","X",".","X",".","/",".",".","X",".",".">>,
      name |-> "Light Yellow", pay |-> FALSE],
     [htmlcolor |-> <<"9","c","8","4","3","1">>,
      pattern |-> <<".","X","X","X",".","/","X",".",".",".","X","/",".","X","X","X",".","/","X",".",".",".","X","/",".","X","X","X",".">>,
      name |-> "Dark Goldenrod", pay |-> TRUE],
     [htmlcolor |-> <<"c","5","a","d","3","1">>,
      pattern |-> <<".",".","X",".",".","/",".","X",".","X",".","/",".","X",".","X",".","/",".","X",".","X",".","/",".",".","X",".",".">>,
      name |-> "Goldenrod", pay |-> TRUE],
     [htmlcolor |-> <<"e","8","d","4","5","f">>,
      pattern |-> <<".",".",".","X","X","/",".",".",".","X","X","/",".",".",".",".",".","/","X","X",".",".",".","/","X","X",".",".",".">>,
      name |-> "Light Goldenrod", pay |-> TRUE],
     [htmlcolor |-> <<"4","a","6","b","3","a">>,
      pattern |-> <<".",".",".",".",".","/",".","X","X","X",".","/",".","X","X",".",".","/",".","X",".",".",".","/",".",".",".",".",".">>,
      name |-> "Dark Olive", pay |-> TRUE],
     [htmlcolor |-> <<"5","a","9","4","4","a">>,
      pattern |-> <<"X",".",".",".","X","/",".","X",".","X",".","/",".",".","X",".",".","/",".",".","X",".",".","/",".",".","X",".",".">>,
      name |-> "Olive", pay |-> TRUE],
     [htmlcolor |-> <<"8","4","c","5","7","3">>,
      pattern |-> <<"X","X","X","X","X","/","X",".",".",".","X","/","X",".",".",".","X","/","X",".",".",".","X","/","X","X","X","X","X">>,
      name |-> "Light Olive", pay |-> TRUE],
     [htmlcolor |-> <<"0","e","b","9","6","8">>,
      pattern |-> <<".",".","X",".",".","/",".","X","X","X",".","/","X",".","X",".","X","/",".",".","X",".",".","/",".",".","X",".",".">>,
      name |-> "Dark Green", pay |-> FALSE],
     [htmlcolor |-> <<"1","3","e","6","7","b">>,
      pattern |-> <<".","X",".",".",".","/",".","X","X",".",".","/",".","X","X","X",".","/",".","X","X",".",".","/",".","X",".",".",".">>,
      name |-> "Green", pay |-> FALSE],
     [htmlcolor |-> <<"8","7","f","f","5","e">>,
      pattern |-> <<".",".",".",".",".","/","X",".",".",".","X","/",".","X",".","X",".","/",".",".","X",".",".","/",".",".",".",".",".">>,
      name |-> "Light Green", pay |-> FALSE],
     [htmlcolor |-> <<"0","c","8","1","6","e">>,
      pattern |-> <<".",".",".",".","X","/",".",".",".","X",".","/",".",".","X",".",".","/",".","X",".",".",".","/","X",".",".",".",".">>,
      name |-> "Dark Teal", pay |-> FALSE],
     [htmlcolor |-> <<"1","0","a","e","a","6">>,
      pattern |-> <<".",".","X",".",".","/",".",".","X",".",".","/","X","X","X","X","X","/",".",".","X",".",".","/",".",".","X",".",".">>,
      name |-> "Teal", pay |-> FALSE],
     [htmlcolor |-> <<"1","3","e","1","b","e">>,
      pattern |-> <<"X",".",".",".","X","/",".",".",".","X",".","/",".",".","X",".",".","/",".","X",".",".",".","/","X",".",".",".","X">>,
      name |-> "Light Teal", pay |-> FALSE],
     [htmlcolor |-> <<"0","f","7","9","9","f">>,
      pattern |-> <<".",".",".",".",".","/",".","X","X","X",".","/",".",".","X","X",".","/",".",".",".","X",".","/",".",".",".",".",".">>,
      name |-> "Dark Cyan", pay |-> TRUE],
     [htmlcolor |-> <<"6","0","f","7","f","2">>,
      pattern |-> <<".",".",".","X",".","/",".",".","X",".",".","/",".","X",".",".",".","/",".",".","X",".",".","/",".",".",".","X",".">>,
      name |-> "Cyan", pay |-> FALSE],
     [htmlcolor |-> <<"b","b","f","a","f","2">>,
      pattern |-> <<"X",".",".",".","X","/","X","X",".","X","X","/","X","X","X","X","X","/","X","X",".","X","X","/","X",".",".",".","X">>,
      name |-> "Light Cyan", pay |-> TRUE],
     [htmlcolor |-> <<"2","8","5","0","9","e">>,
      pattern |-> <<".",".","X",".",".","/",".",".",".","X",".","/","X","X","X","X","X","/",".",".",".","X",".","/",".",".","X",".",".">>,
      name |-> "Dark Blue", pay |-> FALSE],
     [htmlcolor |-> <<"4","0","9","3","e","4">>,
      pattern |-> <<".",".",".",".",".","/",".",".","X",".",".","/",".","X","X","X",".","/","X","X","X","X","X","/",".",".",".",".",".">>,
      name |-> "Blue", pay |-> FALSE],
     [htmlcolor |-> <<"7","d","c","7","f","f">>,
      pattern |-> <<"X",".",".",".","X","/",".",".",".",".",".","/",".",".",".",".",".","/",".",".",".",".",".","/","X",".",".",".","X">>,
      name |-> "Light Blue", pay |-> TRUE],
     [htmlcolor |-> <<"4","d","3","1","b","8">>,
      pattern |-> <<".",".",".",".","X","/",".",".",".","X",".","/",".",".","X",".",".","/",".","X",".","X",".","/","X",".",".",".","X">>,
      name |-> "Dark Indigo", pay |-> TRUE],
     [htmlcolor |-> <<"6","b","5","0","f","6">>,
      pattern |-> <<"X",".",".",".",".","/",".","X",".",".",".","/",".",".","X",".",".","/",".",".",".","X",".","/",".",".",".",".","X">>,
      name |-> "Indigo", pay |-> FALSE],
     [htmlcolor |-> <<"9","9","b","1","f","b">>,
      pattern |-> <<".",".","X",".",".","/",".",".","X",".",".","/",".",".","X",".",".","/",".",".","X",".",".","/",".",".","X",".",".">>,
      name |-> "Light Indigo", pay |-> FALSE],
     [htmlcolor |-> <<"4","a","4","2","8","4">>,
      pattern |-> <<".",".",".",".",".","/",".",".","X",".",".","/",".",".",".",".",".","/",".",".","X",".",".","/",".",".",".",".",".">>,
      name |-> "Dark Slate Blue", pay |-> TRUE],
     [htmlcolor |-> <<"7","a","7","1","c","4">>,
      pattern |-> <<".","X",".","X",".","/","X",".","X",".","X","/","X",".",".",".","X","/",".","X",".","X",".","/",".",".","X",".",".">>,
      name |-> "Slate Blue", pay |-> TRUE],
     [htmlcolor |-> <<"b","5","a","e","f","1">>,
      pattern |-> <<".","X","X","X",".","/","X",".",".","X","X","/","X",".","X",".","X","/","X","X",".",".","X","/",".","X","X","X",".">>,
      name |-> "Light Slate Blue", pay |-> TRUE],
     [htmlcolor |-> <<"7","8","0","c","9","9">>,
      pattern |-> <<".",".","X",".",".","/",".",".","X",".",".","/",".",".","X",".",".","/",".",".",".",".",".","/",".",".","X",".",".">>,
      name |-> "Dark Purple", pay |-> FALSE],
     [htmlcolor |-> <<"a","a","3","8","b","9">>,
      pattern |-> <<".",".",".","X",".","/",".",".","X","X",".","/",".","X","X","X",".","/",".",".","X","X",".","/",".",".",".","X",".">>,
      name |-> "Purple", pay |-> FALSE],
     [htmlcolor |-> <<"e","0","9","f","f","9">>,
      pattern |-> <<".",".",".",".",".","/",".","X","X","X",".","/","X",".",".",".","X","/",".","X","X","X",".","/",".",".",".",".",".">>,
      name |-> "Light Purple", pay |-> FALSE],
     [htmlcolor |-> <<"c","b","0","0","7","a">>,
      pattern |-> <<".",".",".",".",".","/",".",".",".",".",".","/","X","X","X","X","X","/",".",".",".",".",".","/",".",".",".",".",".">>,
      name |-> "Dark Pink", pay |-> FALSE],
     [htmlcolor |-> <<"e","c","1","f","8","0">>,
      pattern |-> <<".","X",".","X",".","/",".","X",".","X",".","/",".","X",".","X",".","/",".","X",".","X",".","/",".","X",".","X",".">>,
      name |-> "Pink", pay |-> FALSE],
     [htmlcolor |-> <<"f","3","8","d","a","9">>,
      pattern |-> <<".",".",".",".",".","/",".",".","X",".",".","/",".","X","X","X",".","/",".",".","X",".",".","/",".",".",".",".",".">>,
      name |-> "Light Pink", pay |-> FALSE],
     [htmlcolor |-> <<"9","b","5","2","4","9">>,
      pattern |-> <<".","X","X","X",".","/","X","X",".",".","X","/","X",".","X",".","X","/","X",".",".","X","X","/",".","X","X","X",".">>,
      name |-> "Dark Peach", pay |-> TRUE],
     [htmlcolor |-> <<"d","1","8","0","7","8">>,
      pattern |-> <<".","X",".","X",".","/","X","X","X","X","X","/","X","X","X","X","X","/",".","X","X","X",".","/",".",".","X",".",".">>,
      name |-> "Peach", pay |-> TRUE],
     [htmlcolor |-> <<"f","a","b","6","a","4">>,
      pattern |-> <<".","X",".","X",".","/",".","X",".","X",".","/",".","X",".","X",".","/",".",".",".",".",".","/",".","X",".","X",".">>,
      name |-> "Light Peach", pay |-> TRUE],
     [htmlcolor |-> <<"6","8","4","6","3","4">>,
      pattern |-> <<"X","X",".",".",".","/","X","X",".",".",".","/",".",".",".",".",".","/",".",".",".","X","X","/",".",".",".","X","X">>,
      name |-> "Dark Brown", pay |-> FALSE],
     [htmlcolor |-> <<"9","5","6","8","2","a">>,
      pattern |-> <<".","X","X","X",".","/","X",".",".",".","X","/","X",".","X",".","X","/","X",".",".",".","X","/",".","X","X","X",".">>,
      name |-> "Brown", pay |-> FALSE],
     [htmlcolor |-> <<"d","b","a","4","6","3">>,
      pattern |-> <<".",".",".",".",".","/",".",".",".",".",".","/",".","X",".","X",".","/",".",".",".",".",".","/",".",".",".",".",".">>,
      name |-> "Light Brown", pay |-> TRUE],
     [htmlcolor |-> <<"7","b","6","3","5","2">>,
      pattern |-> <<".",".",".",".",".","/",".","X",".",".",".","/",".","X","X",".",".","/",".","X","X","X",".","/",".",".",".",".",".">>,
      name |-> "Dark Tan", pay |-> TRUE],
     [htmlcolor |-> <<"9","c","8","4","6","b">>,
      pattern |-> <<".","X","X","X",".","/","X",".",".",".","X","/",".",".","X","X",".","/",".",".",".",".",".","/",".",".","X",".",".">>,
      name |-> "Tan", pay |-> TRUE],
     [htmlcolor |-> <<"d","6","b","5","9","4">>,
      pattern |-> <<".",".",".",".",".","/","X","X","X","X","X","/",".","X",".","X",".","/",".","X",".","X",".","/",".",".",".",".",".">>,
      name |-> "Light Tan", pay |-> TRUE],
     [htmlcolor |-> <<"d","1","8","0","5","1">>,
      pattern |-> <<".",".",".",".",".","/",".",".","X",".",".","/",".","X",".","X",".","/",".",".","X",".",".","/",".",".",".",".",".">>,
      name |-> "Dark Beige", pay |-> TRUE],
     [htmlcolor |-> <<"f","8","b","2","7","7">>,
      pattern |-> <<".",".","X","X","X","/",".",".","X",".","X","/","X","X","X","X","X","/","X",".","X",".",".","/","X","X","X",".",".">>,
      name |-> "Beige", pay |-> FALSE],
     [htmlcolor |-> <<"f","f","c","5","a","5">>,
      pattern |-> <<"X","X","X","X","X","/","X",".",".",".","X","/","X",".","X",".","X","/","X",".",".",".","X","/","X","X","X","X","X">>,
      name |-> "Light Beige", pay |-> TRUE],
     [htmlcolor |-> <<"6","d","6","4","3","f">>,
      pattern |-> <<"X","X","X","X","X","/",".","X",".","X",".","/",".",".","X",".",".","/",".","X",".","X",".","/","X","X","X","X","X">>,
      name |-> "Dark Stone", pay |-> TRUE],
     [htmlcolor |-> <<"9","4","8","c","6","b">>,
      pattern |-> <<".",".","X",".",".","/",".","X",".",".",".","/","X","X","X","X","X","/",".","X",".",".",".","/",".",".","X",".",".">>,
      name |-> "Stone", pay |-> TRUE],
     [htmlcolor |-> <<"c","d","c","5","9","e">>,
      pattern |-> <<".","X",".",".",".","/",".",".","X",".",".","/",".",".",".","X",".","/",".",".","X",".",".","/",".","X",".",".",".">>,
      name |-> "Light Stone", pay |-> TRUE],
     [htmlcolor |-> <<"3","3","3","9","4","1">>,
      pattern |-> <<"X","X","X","X","X","/",".","X",".",".",".","/",".",".","X",".",".","/",".","X",".",".",".","/","X","X","X","X","X">>,
      name |-> "Dark Slate", pay |-> TRUE],
     [htmlcolor |-> <<"6","d","7","5","8","d">>,
      pattern |-> <<"X","X","X","X","X","/",".","X","X","X",".","/",".",".","X",".",".","/",".","X","X","X",".","/","X","X","X","X","X">>,
      name |-> "Slate", pay |-> TRUE],
     [htmlcolor |-> <<"b","3","b","9","d","1">>,
      pattern |-> <<"X",".",".",".","X","/",".",".",".",".",".","/",".",".","X",".",".","/",".",".",".",".",".","/","X",".",".",".","X">>,
      name |-> "Light Slate", pay |-> TRUE]
  >>

font ==
  "0" :> <<<<".","X","X","X","X","X",".">>,
           <<"X","X",".",".",".","X","X">>,
           <<"X","X",".",".","X","X","X">>,
           <<"X","X",".","X","X","X","X">>,
           <<"X","X","X","X",".","X","X">>,
           <<"X","X","X",".",".","X","X">>,
           <<".","X","X","X","X","X",".">>>> @@
  "1" :> <<<<".",".","X","X",".",".",".">>,
           <<".","X","X","X",".",".",".">>,
           <<".",".","X","X",".",".",".">>,
           <<".",".","X","X",".",".",".">>,
           <<".",".","X","X",".",".",".">>,
           <<".",".","X","X",".",".",".">>,
           <<"X","X","X","X","X","X",".">>>> @@
  "2" :> <<<<".","X","X","X","X",".",".">>,
           <<"X","X",".",".","X","X",".">>,
           <<".",".",".",".","X","X",".">>,
           <<".",".","X","X","X",".",".">>,
           <<".","X","X",".",".",".",".">>,
           <<"X","X",".",".","X","X",".">>,
           <<"X","X","X","X","X","X",".">>>> @@
  "3" :> <<<<".","X","X","X","X",".",".">>,
           <<"X","X",".",".","X","X",".">>,
           <<".",".",".",".","X","X",".">>,
           <<".",".","X","X","X",".",".">>,
           <<".",".",".",".","X","X",".">>,
           <<"X","X",".",".","X","X",".">>,
           <<".","X","X","X","X",".",".">>>> @@
  "4" :> <<<<".",".",".","X","X","X",".">>,
           <<".",".","X","X","X","X",".">>,
           <<".","X","X",".","X","X",".">>,
           <<"X","X",".",".","X","X",".">>,
           <<"X","X","X","X","X","X","X">>,
           <<".",".",".",".","X","X",".">>,
           <<".",".",".","X","X","X","X">>>> @@
  "5" :> <<<<"X","X","X","X","X","X",".">>,
           <<"X","X",".",".",".",".",".">>,
           <<"X","X","X","X","X",".",".">>,
           <<".",".",".",".","X","X",".">>,
           <<".",".",".",".","X","X",".">>,
           <<"X","X",".",".","X","X",".">>,
           <<".","X","X","X","X",".",".">>>> @@
  "6" :> <<<<".",".","X","X","X",".",".">>,
           <<".","X","X",".",".",".",".">>,
           <<"X","X",".",".",".",".",".">>,
           <<"X","X","X","X","X",".",".">>,
           <<"X","X",".",".","X","X",".">>,
           <<"X","X",".",".","X","X",".">>,
           <<".","X","X","X","X",".",".">>>> @@
  "7" :> <<<<"X","X","X","X","X","X",".">>,
           <<"X","X",".",".","X","X",".">>,
           <<".",".",".",".","X","X",".">>,
           <<".",".",".","X","X",".",".">>,
           <<".",".","X","X",".",".",".">>,
           <<".",".","X","X",".",".",".">>,
           <<".",".","X","X",".",".",".">>>> @@
  "8" :> <<<<".","X","X","X","X",".",".">>,
           <<"X","X",".",".","X","X",".">>,
           <<"X","X",".",".","X","X",".">>,
           <<".","X","X","X","X",".",".">>,
           <<"X","X",".",".","X","X",".">>,
           <<"X","X",".",".","X","X",".">>,
           <<".","X","X","X","X",".",".">>>> @@
  "9" :> <<<<".","X","X","X","X",".",".">>,
           <<"X","X",".",".","X","X",".">>,
           <<"X","X",".",".","X","X",".">>,
           <<".","X","X","X","X","X",".">>,
           <<".",".",".",".","X","X",".">>,
           <<".",".",".","X","X",".",".">>,
           <<".","X","X","X",".",".",".">>>> @@
  " " :> <<<<".",".",".",".",".",".",".">>,
           <<".",".",".",".",".",".",".">>,
           <<".",".",".",".",".",".",".">>,
           <<".",".",".",".",".",".",".">>,
           <<".",".",".",".",".",".",".">>,
           <<".",".",".",".",".",".",".">>,
           <<".",".",".",".",".",".",".">>>> @@
  "-" :> <<<<".",".",".",".",".",".",".">>,
           <<".",".",".",".",".",".",".">>,
           <<".",".",".",".",".",".",".">>,
           <<"X","X","X","X","X","X",".">>,
           <<".",".",".",".",".",".",".">>,
           <<".",".",".",".",".",".",".">>,
           <<".",".",".",".",".",".",".">>>>

rotate_right(pattern) ==
  LET s == Len(pattern)
  IN [i \in 1..s |-> [j \in 1..s |-> pattern[s - j + 1][i]]]

_make_transparent ==
  Tile(RGB(128, 128, 128), white,
       << <<"X", ".", "X", ".", "X">>,
          <<".", ".", ".", ".", ".">>,
          <<"X", ".", ".", ".", "X">>,
          <<".", ".", ".", ".", ".">>,
          <<"X", ".", "X", ".", "X">> >>,
       black, white, "Transparent", FALSE).value

HexDigit ==
  "0" :> 0 @@ "1" :> 1 @@ "2" :> 2 @@ "3" :> 3 @@ "4" :> 4 @@ "5" :> 5 @@
  "6" :> 6 @@ "7" :> 7 @@ "8" :> 8 @@ "9" :> 9 @@ "a" :> 10 @@ "b" :> 11 @@
  "c" :> 12 @@ "d" :> 13 @@ "e" :> 14 @@ "f" :> 15

(* int(s, 16) for a string of two hex digits. *)
int16(s) == 16 * HexDigit[s[1]] + HexDigit[s[2]]

(* str.split(sep): the pieces between the separators, in order; done is  *)
(* the list of finished pieces, cur the piece being read.                 *)
SplitStep(s, sep, st, i) ==
  IF s[i] = sep THEN [done |-> Append(st.done, st.cur), cur |-> <<>>]
  ELSE [done |-> st.done, cur |-> Append(st.cur, s[i])]

RECURSIVE SplitFrom(_, _, _, _)
SplitFrom(s, sep, st, i) ==
  IF Evaluated(st) /\ i <= Len(s)
    THEN SplitFrom(s, sep, SplitStep(s, sep, st, i), i + 1)
  ELSE Append(st.done, st.cur)

split(s, sep) == SplitFrom(s, sep, [done |-> <<>>, cur |-> <<>>], 1)

(* A dict is the sequence of its (key, value) entries in insertion order. *)
DictHas(d, key) == \E i \in DOMAIN d : d[i].key = key

DictGet(d, key) == d[CHOOSE i \in DOMAIN d : d[i].key = key].value

DictSet(d, key, value) ==
  IF DictHas(d, key)
    THEN [i \in DOMAIN d |->
            IF d[i].key = key THEN [key |-> key, value |-> value] ELSE d[i]]
  ELSE Append(d, [key |-> key, value |-> value])

DictKeys(d) == [i \in DOMAIN d |-> d[i].key]

EmptyMemo == [cache |-> <<>>, calls |-> <<>>]

(* One pass of the loop of ColorMap.__init__, for the table entry v: st   *)
(* holds self, the ColorMap being filled, and memo, the distance memo     *)
(* that color.highlight() reads and extends.  Tile(...) raises IndexError *)
(* for a pattern that does not fit, after color.highlight() has run, and  *)
(* the exception leaves __init__.                                         *)
ColorMapAdd(st, v) ==
  LET color == RGB(int16(SubSeq(v.htmlcolor, 1, 2)),
                   int16(SubSeq(v.htmlcolor, 3, 4)),
                   int16(SubSeq(v.htmlcolor, 5, 6)))
      hi == highlight(st.memo, color)
      tile == Tile(color, hi.result, split(v.pattern, "/"),
                   bright(color), dim(color), v.name, v.pay)
  IN [exc |-> tile.exc,
      self |-> IF tile.exc # NoExc THEN st.self
               ELSE [st.self EXCEPT !.colors = Append(@, color),
                                    !.color_map = DictSet(@, color, tile.value)],
      memo |-> hi.memo]

RECURSIVE ColorMapFill(_, _, _)
ColorMapFill(values, st, k) ==
  IF Evaluated(st) /\ st.exc = NoExc /\ k <= Len(values)
    THEN ColorMapFill(values, ColorMapAdd(st, values[k]), k + 1)
  ELSE st

(* ColorMap(values, transparent): the exception raised if any, self, and  *)
(* the memo after it.                                                     *)
ColorMap(values, transparent, memo) ==
  ColorMapFill(values,
               [exc |-> NoExc,
                self |-> [color_map |-> <<>>, colors |-> <<>>,
                          transparent |-> transparent],
                memo |-> memo],
               1)

FontChars == DOMAIN font

h_font_map ==
  [ch \in FontChars |-> Tile(black, white, font[ch], None, None, None, FALSE).value]

v_font_map ==
  [ch \in FontChars |->
     Tile(black, white, rotate_right(font[ch]), None, None, None, FALSE).value]

(* The module's globals once it is loaded: the tile maps, and the        *)
(* distance memo that building color_tile_map filled.                     *)
ModuleLoad ==
  LET built == ColorMap(color_values, _make_transparent, EmptyMemo)
  IN [blank_tile |-> blank_tile,
      color_tile_map |-> built.self,
      h_font_map |-> h_font_map,
      v_font_map |-> v_font_map,
      memo |-> built.memo]

(***************************************************************************)
(* A Screen cell holds a reference to one of the shared immutable tiles:   *)
(* the blank tile, the transparent tile, a palette tile (by its colour) or *)
(* a glyph of one of the two font maps (by its character).                 *)
(***************************************************************************)
BlankRef == [of |-> "blank_tile", key |-> None]

TransparentRef == [of |-> "transparent", key |-> None]

PaletteRef(color) == [of |-> "color_map", key |-> color]

HFontRef(ch) == [of |-> "h_font_map", key |-> <<ch>>]

VFontRef(ch) == [of |-> "v_font_map", key |-> <<ch>>]

TileAt(g, ref) ==
  CASE ref.of = "blank_tile" -> g.blank_tile
    [] ref.of = "transparent" -> g.color_tile_map.transparent
    [] ref.of = "color_map" -> DictGet(g.color_tile_map.color_map, ref.key)
    [] ref.of = "h_font_map" -> g.h_font_map[ref.key[1]]
    [] ref.of = "v_font_map" -> g.v_font_map[ref.key[1]]

(* ColorMap.__getitem__ *)
getitem(g, color) ==
  IF color[4] = 0 THEN Return(TransparentRef)
  ELSE IF DictHas(g.color_tile_map.color_map, color)
    THEN Return(PaletteRef(color))
  ELSE Raise("KeyError")

(* One step of Python's min(keys, key=lambda c: c.distance_from(color)):  *)
(* the scan keeps the first element whose key is smallest; best is <<>>   *)
(* before the first element, then <<element, its key>>.                   *)
MinStep(st, c, color) ==
  LET d == distance_from(st.memo, c, color)
  IN IF st.best = <<>> \/ d.result < st.best[2]
       THEN [best |-> <<c, d.result>>, memo |-> d.memo]
     ELSE [best |-> st.best, memo |-> d.memo]

(* min() over the keys of color_map *)
RECURSIVE MinScan(_, _, _, _)
MinScan(keys, color, st, k) ==
  IF Evaluated(st) /\ k <= Len(keys)
    THEN MinScan(keys, color, MinStep(st, keys[k], color), k + 1)
  ELSE [result |-> st.best[1], memo |-> st.memo]

MinKey(keys, color, memo) ==
  MinScan(keys, color, [best |-> <<>>, memo |-> memo], 1)

(* get_closest_color returning a colour of alpha 0 as it is. *)
GetClosestColorKeepsTransparent(g, memo, color) ==
  IF color[4] = 0 THEN [result |-> color, memo |-> memo]
  ELSE IF DictHas(g.color_tile_map.color_map, color)
    THEN [result |-> color, memo |-> memo]
  ELSE MinKey(DictKeys(g.color_tile_map.color_map), color, memo)

get_closest_color(g, memo, color) ==
  IF color[4] = 0 THEN [result |-> Color(0, 0, 0, 0), memo |-> memo]
  ELSE IF DictHas(g.color_tile_map.color_map, color)
    THEN [result |-> color, memo |-> memo]
  ELSE MinKey(DictKeys(g.color_tile_map.color_map), color, memo)

---------------------------------------------------------------------------
(* class Screen *)

Screen(width, height) ==
  [width |-> width,
   height |-> height,
   tiles |-> [r \in 1..height |-> [c \in 1..width |-> BlankRef]],
   dim |-> [r \in 1..height |-> [c \in 1..width |-> FALSE]],
   halo |-> [r \in 1..height |-> [c \in 1..width |-> None]]]

(* A list index of Python, 0-based; a negative one counts from the end. *)
InRange(i, n) == -n <= i /\ i < n

Index(i, n) == IF i < 0 THEN i + n + 1 ELSE i + 1

(* Screen.plot: self with the cell assigned, or IndexError. *)
plot(self, row, col, tile) ==
  IF InRange(row, self.height) /\ InRange(col, self.width)
    THEN Return([self EXCEPT
                   !.tiles[Index(row, self.height)][Index(col, self.width)] = tile])
  ELSE Raise("IndexError")

(* Screen.halo *)
halo(self, row, col, color) ==
  IF InRange(row, self.height) /\ InRange(col, self.width)
    THEN Return([self EXCEPT
                   !.halo[Index(row, self.height)][Index(col, self.width)] = color])
  ELSE Raise("IndexError")

(* The 9 pixel rows of one line of cells: each tile's k-th drawn row,     *)
(* joined left to right.                                                  *)
DrawLine(g, line, haloline) ==
  LET drawn == [c \in DOMAIN line |->
                  TileDraw(TileAt(g, line[c]), FALSE, haloline[c]).value]
  IN [k \in 1..9 |-> Concat([c \in DOMAIN line |-> drawn[c][k]])]

(* A splice that inserts the left pixel only. *)
SpliceLineLeftOnly(line, hext) ==
  LET left == Take(line, hext * 4)
      right == Drop(line, hext * 4)
  IN left \o LastN(left, 4) \o right

(* One pass of the inner loop of draw, at pixel position hext: the pixel  *)
(* left of the position and the pixel right of it are inserted between    *)
(* the two halves of the line.                                            *)
SpliceLine(line, hext) ==
  LET left == Take(line, hext * 4)
      right == Drop(line, hext * 4)
  IN left \o LastN(left, 4) \o Take(right, 4) \o right

(* A splice that inserts the row above twice. *)
SpliceRowsAboveTwice(ans, vext) ==
  LET top == Take(ans, vext)
      bottom == Drop(ans, vext)
  IN top \o LastN(top, 1) \o LastN(top, 1) \o bottom

(* One pass of the loop of draw over vexts, at pixel position vext. *)
SpliceRows(ans, vext) ==
  LET top == Take(ans, vext)
      bottom == Drop(ans, vext)
  IN top \o LastN(top, 1) \o Take(bottom, 1) \o bottom

(* The loop "for hext in hexts" of draw, from the k-th position on. *)
RECURSIVE SpliceLines(_, _, _)
SpliceLines(line, hexts, k) ==
  IF Evaluated(line) /\ k <= Len(hexts)
    THEN SpliceLines(SpliceLine(line, hexts[k]), hexts, k + 1)
  ELSE line

(* The loop "for vext in vexts" of draw, from the k-th position on. *)
RECURSIVE SpliceAllRows(_, _, _)
SpliceAllRows(ans, vexts, k) ==
  IF Evaluated(ans) /\ k <= Len(vexts)
    THEN SpliceAllRows(SpliceRows(ans, vexts[k]), vexts, k + 1)
  ELSE ans

(* Screen.draw: the list of pixel rows, or AssertionError. *)
draw(g, self, hexts, vexts) ==
  IF ~ (\A i \in DOMAIN hexts : 0 < hexts[i] /\ hexts[i] < self.width)
    THEN Raise("AssertionError")
  ELSE IF ~ (\A i \in DOMAIN vexts : 0 < vexts[i] /\ vexts[i] < self.height)
    THEN Raise("AssertionError")
  ELSE LET ans == Concat([r \in 1..self.height |->
                            DrawLine(g, self.tiles[r], self.halo[r])])
           hs == SortedDesc([i \in DOMAIN hexts |-> hexts[i] * 9])
           vs == SortedDesc([i \in DOMAIN vexts |-> vexts[i] * 9])
           wide == [i \in DOMAIN ans |-> SpliceLines(ans[i], hs, 1)]
       IN Return(SpliceAllRows(wide, vs, 1))

(***************************************************************************)
(* png.Writer(width, height, ...).write(f, rows), the external encoder.    *)
(* The constructor raises ProtocolError for a width or height of 0 or      *)
(* less, before the argument expression of write is evaluated.  rows is    *)
(* the outcome of that expression: an exception raised there leaves f as   *)
(* it was.  The encoder writes the rows it is given under the declared     *)
(* size, and raises ProtocolError, leaving a partial file, when a row's    *)
(* length or the number of rows differs from the declaration.              *)
(***************************************************************************)
PngWrite(f, width, height, rows) ==
  IF width <= 0 \/ height <= 0 THEN [exc |-> "ProtocolError", file |-> f]
  ELSE IF rows.exc # NoExc THEN [exc |-> rows.exc, file |-> f]
  ELSE IF /\ \A i \in DOMAIN rows.value : Len(rows.value[i]) = 4 * width
          /\ Len(rows.value) = height
    THEN [exc |-> NoExc,
          file |-> [state |-> "written", width |-> width, height |-> height,
                    rows |-> rows.value]]
  ELSE [exc |-> "ProtocolError",
        file |-> [state |-> "partial", width |-> width, height |-> height,
                  rows |-> <<>>]]

(* write_png declaring one pixel line per separator. *)
WritePngOneLinePerSeparator(g, self, f, hexts, vexts) ==
  PngWrite(f,
           self.width * 9 + Len(hexts),
           self.height * 9 + Len(vexts),
           draw(g, self, hexts, vexts))

(* Screen.write_png: the outcome and the file's content after it. *)
write_png(g, self, f, hexts, vexts) ==
  PngWrite(f,
           self.width * 9 + 2 * Len(hexts),
           self.height * 9 + 2 * Len(vexts),
           draw(g, self, hexts, vexts))

---------------------------------------------------------------------------
(* str, str.rjust and str.ljust; a string is the sequence of its          *)
(* characters.                                                            *)

DigitChar(d) == <<"0", "1", "2", "3", "4", "5", "6", "7", "8", "9">>[d + 1]

RECURSIVE Digits(_)
Digits(n) ==
  IF n < 10 THEN <<DigitChar(n)>>
  ELSE Append(Digits(n \div 10), DigitChar(n % 10))

str(n) == IF n < 0 THEN <<"-">> \o Digits(-n) ELSE Digits(n)

Spaces(n) == [i \in 1..n |-> " "]

(* A text wider than the width is returned as it is. *)
rjust(s, width) == IF Len(s) >= width THEN s ELSE Spaces(width - Len(s)) \o s

ljust(s, width) == IF Len(s) >= width THEN s ELSE s \o Spaces(width - Len(s))

(* The slice s[lo : hi] of Python: a negative bound counts from the end,  *)
(* and both bounds are clipped to the sequence.                           *)
SliceBound(i, n) == IF i < 0 THEN Max(i + n, 0) ELSE Min(i, n)

Slice(s, lo, hi) ==
  SubSeq(s, SliceBound(lo, Len(s)) + 1, SliceBound(hi, Len(s)))

(* a % b == 0 in Python, for b # 0 of either sign *)
ModIsZero(a, b) == IF b > 0 THEN a % b = 0 ELSE (-a) % (-b) = 0

---------------------------------------------------------------------------
(* alpha_line_to_colors: one Color per 4 bytes of the line, snapped to    *)
(* the palette when fix is set.  st holds ans and the distance memo.      *)

AlphaPixel(g, line, fix, st, i) ==
  LET c == Color(line[i + 1], line[i + 2], line[i + 3], line[i + 4])
      snapped == get_closest_color(g, st.memo, c)
  IN IF fix THEN [ans |-> Append(st.ans, snapped.result), memo |-> snapped.memo]
     ELSE [ans |-> Append(st.ans, c), memo |-> st.memo]

RECURSIVE AlphaLineFrom(_, _, _, _, _)
AlphaLineFrom(g, line, fix, st, i) ==
  IF Evaluated(st) /\ i < Len(line)
    THEN AlphaLineFrom(g, line, fix, AlphaPixel(g, line, fix, st, i), i + 4)
  ELSE st

alpha_line_to_colors(g, memo, line, fix) ==
  AlphaLineFrom(g, line, fix, [ans |-> <<>>, memo |-> memo], 0)

AlphaLineAdded(st, r) == [ans |-> Append(st.ans, r.ans), memo |-> r.memo]

(* [alpha_line_to_colors(x) for x in pixels] *)
RECURSIVE AlphaLinesFrom(_, _, _, _)
AlphaLinesFrom(g, pixels, st, k) ==
  IF Evaluated(st) /\ k <= Len(pixels)
    THEN AlphaLinesFrom(
           g, pixels,
           AlphaLineAdded(st, alpha_line_to_colors(g, st.memo, pixels[k], TRUE)),
           k + 1)
  ELSE st

(* The rows [y_start : y_start + y_len] of the snapped image, each cut to *)
(* [x_start : x_start + x_len].                                           *)
CutRows(rows, x_start, x_len, y_start, y_len) ==
  LET kept == Slice(rows, y_start, y_start + y_len)
  IN [k \in DOMAIN kept |-> Slice(kept[k], x_start, x_start + x_len)]

---------------------------------------------------------------------------
(* h_draw and v_draw.  A Screen operation in a sequence of them acts on   *)
(* the outcome so far, [exc, value]: after an exception nothing more is   *)
(* done and value is the Screen as the exception left it.                 *)

PlotInto(st, row, col, tile) ==
  IF st.exc # NoExc THEN st
  ELSE IF plot(st.value, row, col, tile).exc # NoExc
    THEN [exc |-> plot(st.value, row, col, tile).exc, value |-> st.value]
  ELSE plot(st.value, row, col, tile)

HaloInto(st, row, col, color) ==
  IF st.exc # NoExc THEN st
  ELSE IF halo(st.value, row, col, color).exc # NoExc
    THEN [exc |-> halo(st.value, row, col, color).exc, value |-> st.value]
  ELSE halo(st.value, row, col, color)

(* h_font_map.get(c, blank_tile) *)
HGlyph(g, c) == IF c \in DOMAIN g.h_font_map THEN HFontRef(c) ELSE BlankRef

(* v_font_map.get(c, blank_tile) *)
VGlyph(g, c) == IF c \in DOMAIN g.v_font_map THEN VFontRef(c) ELSE BlankRef

RECURSIVE HDrawFrom(_, _, _, _, _, _)
HDrawFrom(g, st, row, col, s, i) ==
  IF Evaluated(st) /\ st.exc = NoExc /\ i < Len(s)
    THEN HDrawFrom(g, PlotInto(st, row, col + i, HGlyph(g, s[i + 1])),
                   row, col, s, i + 1)
  ELSE st

h_draw(g, st, row, col, s) == HDrawFrom(g, st, row, col, s, 0)

RECURSIVE VDrawFrom(_, _, _, _, _, _)
VDrawFrom(g, st, row, col, s, i) ==
  IF Evaluated(st) /\ st.exc = NoExc /\ i < Len(s)
    THEN VDrawFrom(g, PlotInto(st, row + i, col, VGlyph(g, s[i + 1])),
                   row, col, s, i + 1)
  ELSE st

v_draw(g, st, row, col, s) == VDrawFrom(g, st, row, col, s, 0)

---------------------------------------------------------------------------
(* ColorCatalog *)

(* The names ColorCatalog prints, in the order of Python's str comparison. *)
NameOrder ==
  <<"  Beige", "  Black", "  Blue", "  Brown",
    "  Cyan", "  Dark Blue", "  Dark Brown", "  Dark Gray",
    "  Dark Green", "  Dark Pink", "  Dark Purple", "  Dark Teal",
    "  Deep Red", "  Gold", "  Gray", "  Green",
    "  Indigo", "  Light Gray", "  Light Green", "  Light Indigo",
    "  Light Pink", "  Light Purple", "  Light Teal", "  Light Yellow",
    "  Orange", "  Pink", "  Purple", "  Red",
    "  Teal", "  Transparent", "  White", "  Yellow",
    "$ Dark Beige", "$ Dark Cyan", "$ Dark Goldenrod", "$ Dark Indigo",
    "$ Dark Olive", "$ Dark Orange", "$ Dark Peach", "$ Dark Red",
    "$ Dark Slate", "$ Dark Slate Blue", "$ Dark Stone", "$ Dark Tan",
    "$ Goldenrod", "$ Light Beige", "$ Light Blue", "$ Light Brown",
    "$ Light Cyan", "$ Light Goldenrod", "$ Light Olive", "$ Light Peach",
    "$ Light Red", "$ Light Slate", "$ Light Slate Blue", "$ Light Stone",
    "$ Light Tan", "$ Medium Gray", "$ Olive", "$ Peach",
    "$ Slate", "$ Slate Blue", "$ Stone", "$ Tan">>

(* name(tile) *)
TileName(tile) == IF tile.pay THEN "$ " \o tile.name ELSE "  " \o tile.name

(* The names of the tiles of all pixels, row by row. *)
CatalogTiles(g, color_pixels) ==
  Concat([r \in DOMAIN color_pixels |->
            [c \in DOMAIN color_pixels[r] |->
               TileName(TileAt(g, getitem(g, color_pixels[r][c]).value))]])

(* The (count, name) pairs of data, each as one number that orders the    *)
(* pairs as Python orders them: by the count, then by the name.           *)
CatalogKeys(tiles) ==
  {Cardinality({i \in DOMAIN tiles : tiles[i] = tiles[k]}) * (Len(NameOrder) + 1)
     + (CHOOSE n \in DOMAIN NameOrder : NameOrder[n] = tiles[k]) :
   k \in DOMAIN tiles}

(* data.sort(reverse=True) *)
RECURSIVE CatalogSorted(_)
CatalogSorted(keys) ==
  IF keys = {} THEN <<>>
  ELSE LET top == CHOOSE k \in keys : \A j \in keys : j <= k
       IN <<top>> \o CatalogSorted(keys \ {top})

(* The characters of a text as one string. *)
RECURSIVE Joined(_)
Joined(s) == IF s = <<>> THEN "" ELSE s[1] \o Joined(Tail(s))

(* The lines printed, print(f"{count:5d} {name}") for each pair of data. *)
CatalogPrinted(data) ==
  [k \in DOMAIN data |->
     Joined(rjust(str(data[k] \div (Len(NameOrder) + 1)), 5)) \o " "
       \o NameOrder[data[k] % (Len(NameOrder) + 1)]]

(* ColorCatalog(path) on the image read from path: what it prints, and    *)
(* the memo after it.                                                     *)
ColorCatalog(g, memo, image) ==
  [printed |-> CatalogPrinted(CatalogSorted(CatalogKeys(CatalogTiles(g,
                 AlphaLinesFrom(g, image.pixels,
                                [ans |-> <<>>, memo |-> memo], 1).ans)))),
   memo |-> AlphaLinesFrom(g, image.pixels,
                           [ans |-> <<>>, memo |-> memo], 1).memo]

---------------------------------------------------------------------------
(* Bounds of the model. *)

MaxCells == 3     \* a Screen drawn on its own has 1..MaxCells cells a side

MaxSeps == 2      \* separator lists passed to draw have 0..MaxSeps positions

SeqsUpTo(S, n) == UNION {[1..k -> S] : k \in 0..n}

---------------------------------------------------------------------------
(* Screen.draw on its own: a populated Screen, then calls of draw.        *)

red == RGB(255, 0, 0)

PaletteColor(g, k) == g.color_tile_map.colors[k]

(* plot() on cell number n, counted row by row: it gets the palette tile *)
(* number n + seed, counted round the palette.                            *)
PlotCell(g, self, seed, n) ==
  LET color == PaletteColor(g, ((n + seed) % Len(color_values)) + 1)
  IN plot(self, n \div self.width, n % self.width,
          getitem(g, color).value).value

FillSeeds == {0, 40}

RECURSIVE PlotFrom(_, _, _, _)
PlotFrom(g, self, seed, n) ==
  IF Evaluated(self) /\ n < self.width * self.height
    THEN PlotFrom(g, PlotCell(g, self, seed, n), seed, n + 1)
  ELSE self

Haloed(self, haloed) ==
  IF haloed THEN halo(self, self.height - 1, 0, red).value ELSE self

Populated(g, width, height, seed, haloed) ==
  Haloed(PlotFrom(g, Screen(width, height), seed, 0), haloed)

Idle == [op |-> "none", exc |-> NoExc, value |-> <<>>]

NoCall == <<>>

(* The process once the module is loaded and a Screen is populated. *)
Started(g) ==
  /\ cache = g.memo.cache
  /\ calls = g.memo.calls
  /\ \E width \in 1..MaxCells, height \in 1..MaxCells, seed \in FillSeeds,
        haloed \in BOOLEAN :
       scr = Populated(g, width, height, seed, haloed)

InitScreen ==
  /\ Started(ModuleLoad)
  /\ ret = Idle
  /\ pc = "idle"
  /\ args = NoCall
  /\ loc = NoCall
  /\ outfile = [state |-> "absent"]
  /\ made = 0

(* What is recorded of a finished call of draw: its arguments and outcome. *)
Drawn(hexts, vexts, r) ==
  [op |-> "Screen.draw", hexts |-> hexts, vexts |-> vexts,
   exc |-> r.exc, value |-> r.value]

(* The call scr.draw(hexts=hexts, vexts=vexts); a Screen is composed once. *)
ScreenDraw(hexts, vexts) ==
  /\ pc = "idle"
  /\ ret = Idle
  /\ ret' = Drawn(hexts, vexts, draw(ModuleLoad, scr, hexts, vexts))
  /\ UNCHANGED <<cache, calls, scr, pc, args, loc, outfile, made>>

(* What is recorded of a finished call of write_png. *)
Written(hexts, vexts, r) ==
  [op |-> "Screen.write_png", hexts |-> hexts, vexts |-> vexts,
   exc |-> r.exc, value |-> r.file]

(* The call scr.write_png(f, hexts=hexts, vexts=vexts) on a file the      *)
(* caller has just opened for writing.                                    *)
ScreenWritePng(hexts, vexts) ==
  /\ pc = "idle"
  /\ ret = Idle
  /\ ret' = Written(hexts, vexts,
                    write_png(ModuleLoad, scr, [state |-> "empty"],
                              hexts, vexts))
  /\ outfile' = ret'.value
  /\ UNCHANGED <<cache, calls, scr, pc, args, loc, made>>

NextScreen ==
  \E hexts \in SeqsUpTo(0..scr.width, MaxSeps),
     vexts \in SeqsUpTo(0..scr.height, MaxSeps) :
    \/ ScreenDraw(hexts, vexts)
    \/ ScreenWritePng(hexts, vexts)

SpecScreen == InitScreen /\ [][NextScreen]_vars

---------------------------------------------------------------------------
(* Properties of Screen.draw and Screen.write_png. *)

Interior(ps, n) == \A i \in DOMAIN ps : 0 < ps[i] /\ ps[i] < n

(* The pixel at row y, column x (0-based) of a list of pixel rows. *)
Pixel(rows, y, x) == SubSeq(rows[y + 1], 4 * x + 1, 4 * x + 4)

(* Where original pixel line c ends up once two lines are inserted for    *)
(* every listed position at or before it.                                 *)
Placed(ps, c) == c + 2 * Cardinality({i \in DOMAIN ps : 9 * ps[i] <= c})

(* The first original line placed after output line x. *)
NextOriginal(ps, n, x) ==
  CHOOSE c \in 0..(n - 1) :
    /\ Placed(ps, c) > x
    /\ \A d \in 0..(c - 1) : Placed(ps, d) < x

(* The original line that output line x shows: itself for an original     *)
(* line; for an inserted one, the line after the boundary for the last    *)
(* inserted line of a boundary and the line before the boundary for the   *)
(* others.                                                                *)
Origin(ps, n, x) ==
  IF \E c \in 0..(n - 1) : Placed(ps, c) = x
    THEN CHOOSE c \in 0..(n - 1) : Placed(ps, c) = x
  ELSE IF x = Placed(ps, NextOriginal(ps, n, x)) - 1
    THEN NextOriginal(ps, n, x)
  ELSE NextOriginal(ps, n, x) - 1

(* The same with every inserted line showing the line before its boundary. *)
OriginBefore(ps, n, x) ==
  IF \E c \in 0..(n - 1) : Placed(ps, c) = x
    THEN CHOOSE c \in 0..(n - 1) : Placed(ps, c) = x
  ELSE NextOriginal(ps, n, x) - 1

DrawCalled ==
  /\ ret.op = "Screen.draw"
  /\ Interior(ret.hexts, scr.width)
  /\ Interior(ret.vexts, scr.height)

WriteCalled ==
  /\ ret.op = "Screen.write_png"
  /\ Interior(ret.hexts, scr.width)
  /\ Interior(ret.vexts, scr.height)

HasSize(rows, width, height) ==
  /\ Len(rows) = height
  /\ \A i \in DOMAIN rows : Len(rows[i]) = 4 * width

(* C1 as stated: draw with strictly interior separators returns           *)
(* W*9 + len(hexts) pixels (4 bytes each) by H*9 + len(vexts) rows, one    *)
(* pixel column or row per separator.                                     *)
C1_OnePixelPerSeparator ==
  DrawCalled =>
    /\ ret.exc = NoExc
    /\ HasSize(ret.value, scr.width * 9 + Len(ret.hexts),
               scr.height * 9 + Len(ret.vexts))

(* C1: draw with strictly interior separators returns a buffer of         *)
(* W*9 + 2*len(hexts) pixels (4 bytes each) in every row and               *)
(* H*9 + 2*len(vexts) rows: each listed separator adds two pixel columns   *)
(* or two pixel rows; write_png declares that size and writes the buffer.  *)
C1_TwoPixelsPerSeparator ==
  /\ DrawCalled =>
       /\ ret.exc = NoExc
       /\ HasSize(ret.value, scr.width * 9 + 2 * Len(ret.hexts),
                  scr.height * 9 + 2 * Len(ret.vexts))
  /\ WriteCalled =>
       /\ ret.exc = NoExc
       /\ outfile.state = "written"
       /\ outfile.width = scr.width * 9 + 2 * Len(ret.hexts)
       /\ outfile.height = scr.height * 9 + 2 * Len(ret.vexts)
       /\ HasSize(outfile.rows, outfile.width, outfile.height)

C1_Witness ==
  /\ DrawCalled
  /\ ret.exc = NoExc
  /\ Len(ret.hexts) = 2
  /\ Len(ret.vexts) = 1
  /\ Len(ret.value) = scr.height * 9 + 2
  /\ Len(ret.value[1]) = 4 * (scr.width * 9 + 4)

(* Every pixel of the returned buffer against the buffer drawn with no    *)
(* separators: cols and rows give, for each output column and row, the    *)
(* original column and row it shows.                                      *)
Shows(out, orig, cols, rows) ==
  \A y \in DOMAIN rows : \A x \in DOMAIN cols :
    Pixel(out, y, x) = Pixel(orig, rows[y], cols[x])

(* C3 as stated: every pixel column inserted at boundary 9*p copies the   *)
(* original column 9*p - 1 and every inserted row copies the original row *)
(* 9*q - 1; original pixels keep their values and order.                  *)
C3_InsertedCopyTheLineBefore ==
  (DrawCalled /\ ret.exc = NoExc) =>
    /\ HasSize(ret.value, scr.width * 9 + 2 * Len(ret.hexts),
               scr.height * 9 + 2 * Len(ret.vexts))
    /\ Shows(ret.value, draw(ModuleLoad, scr, <<>>, <<>>).value,
             [x \in 0..(scr.width * 9 + 2 * Len(ret.hexts) - 1) |->
                OriginBefore(ret.hexts, 9 * scr.width, x)],
             [y \in 0..(scr.height * 9 + 2 * Len(ret.vexts) - 1) |->
                OriginBefore(ret.vexts, 9 * scr.height, y)])

(* C3: for a position p listed k times, 2k pixel columns are inserted at  *)
(* boundary 9*p: 2k - 1 copies of the original column 9*p - 1 followed by *)
(* one copy of the original column 9*p; rows likewise with 9*q - 1 and    *)
(* 9*q; all original pixels keep their values and relative order, and the *)
(* result does not depend on the order in which positions are listed.     *)
C3_InsertedCopyBothNeighbours ==
  (DrawCalled /\ ret.exc = NoExc) =>
    /\ HasSize(ret.value, scr.width * 9 + 2 * Len(ret.hexts),
               scr.height * 9 + 2 * Len(ret.vexts))
    /\ Shows(ret.value, draw(ModuleLoad, scr, <<>>, <<>>).value,
             [x \in 0..(scr.width * 9 + 2 * Len(ret.hexts) - 1) |->
                Origin(ret.hexts, 9 * scr.width, x)],
             [y \in 0..(scr.height * 9 + 2 * Len(ret.vexts) - 1) |->
                Origin(ret.vexts, 9 * scr.height, y)])

C3_Witness ==
  /\ DrawCalled
  /\ ret.exc = NoExc
  /\ Len(ret.hexts) = 2
  /\ ret.hexts[1] < ret.hexts[2]
  /\ Len(ret.vexts) = 2
  /\ ret.vexts[1] = ret.vexts[2]
  /\ Pixel(ret.value, 9 * ret.vexts[1] + 3, 0)
       # Pixel(ret.value, 9 * ret.vexts[1] - 1, 0)
---------------------------------------------------------------------------
(* Colour queries in one process: distance_from, get_closest_color and    *)
(* Tile.draw, called in any order on the loaded module.                   *)

MaxCalls == 2     \* calls made in one process

(* The colours the calls are made with: palette members, colours off the  *)
(* palette, a palette colour with another alpha, and zero-alpha colours.  *)
QueryColors ==
  {RGB(0, 0, 0), RGB(255, 255, 255), RGB(1, 2, 3), RGB(255, 207, 0),
   Color(0, 0, 0, 128), Color(9, 9, 9, 0)}

DistanceColors == {RGB(0, 0, 0), RGB(1, 2, 3), RGB(255, 207, 0)}

DrawnTiles ==
  {BlankRef, TransparentRef, PaletteRef(RGB(237, 28, 36)), VFontRef("7")}

Memo == [cache |-> cache, calls |-> calls]

InitWith(g) ==
  /\ cache = g.memo.cache
  /\ calls = g.memo.calls
  /\ scr = None
  /\ ret = Idle
  /\ pc = "idle"
  /\ args = NoCall
  /\ loc = NoCall
  /\ outfile = [state |-> "absent"]
  /\ made = 0

Init ==
  /\ InitWith(ModuleLoad)

(* The call self.distance_from(other). *)
DistanceFrom(self, other) ==
  /\ made < MaxCalls
  /\ LET r == distance_from(Memo, self, other)
     IN /\ cache' = r.memo.cache
        /\ calls' = r.memo.calls
        /\ ret' = [op |-> "distance_from", self |-> self, other |-> other,
                   exc |-> NoExc, value |-> r.result]
  /\ made' = made + 1
  /\ UNCHANGED <<scr, pc, args, loc, outfile>>

GetClosestColorOn(g, color) ==
  LET r == get_closest_color(g, Memo, color)
  IN /\ cache' = r.memo.cache
     /\ calls' = r.memo.calls
     /\ ret' = [op |-> "get_closest_color", color |-> color,
                exc |-> NoExc, value |-> r.result]

(* The call color_tile_map.get_closest_color(color). *)
GetClosestColor(color) ==
  /\ made < MaxCalls
  /\ GetClosestColorOn(ModuleLoad, color)
  /\ made' = made + 1
  /\ UNCHANGED <<scr, pc, args, loc, outfile>>

(* What is recorded of a finished call of Tile.draw. *)
TileDrawn(ref, fade, halocolor, r) ==
  [op |-> "Tile.draw", tile |-> ref, fade |-> fade, halo |-> halocolor,
   exc |-> r.exc, value |-> r.value]

(* The call tile.draw(fade=fade, halo=halocolor) on one of the shared tiles. *)
TileDrawCall(ref, fade, halocolor) ==
  /\ made < MaxCalls
  /\ ret' = TileDrawn(ref, fade, halocolor,
                      TileDraw(TileAt(ModuleLoad, ref), fade, halocolor))
  /\ made' = made + 1
  /\ UNCHANGED <<cache, calls, scr, pc, args, loc, outfile>>

(* The images ColorCatalog is called with, as png.Reader reads them. *)
CatalogImages ==
  {[width |-> 1, height |-> 1, pixels |-> <<RGB(1, 2, 3)>>],
   [width |-> 3, height |-> 1,
    pixels |-> <<RGB(1, 2, 3) \o Color(0, 0, 0, 128) \o RGB(30, 40, 50)>>],
   [width |-> 2, height |-> 2,
    pixels |-> <<RGB(165, 14, 30) \o Color(9, 9, 9, 0),
                 RGB(255, 207, 0) \o RGB(165, 14, 30)>>]}

(* The call ColorCatalog(path), path being the file of the image: the    *)
(* lines it prints are recorded as its outcome.                           *)
ColorCatalogCall(image) ==
  /\ made < MaxCalls
  /\ \E r \in {ColorCatalog(ModuleLoad, Memo, image)} :
       /\ cache' = r.memo.cache
       /\ calls' = r.memo.calls
       /\ ret' = [op |-> "ColorCatalog", image |-> image,
                  exc |-> NoExc, value |-> r.printed]
  /\ made' = made + 1
  /\ UNCHANGED <<scr, pc, args, loc, outfile>>

Next ==
  \/ \E self \in DistanceColors, other \in DistanceColors :
       DistanceFrom(self, other)
  \/ \E color \in QueryColors : GetClosestColor(color)
  \/ \E ref \in DrawnTiles, fade \in BOOLEAN, halocolor \in {None, red} :
       TileDrawCall(ref, fade, halocolor)
  \/ \E image \in CatalogImages : ColorCatalogCall(image)

Spec == Init /\ [][Next]_vars

---------------------------------------------------------------------------
(* Properties of the colour queries. *)

(* The palette in the order of its declaration in color_values. *)
Declared ==
  [k \in DOMAIN color_values |->
     RGB(int16(SubSeq(color_values[k].htmlcolor, 1, 2)),
         int16(SubSeq(color_values[k].htmlcolor, 3, 4)),
         int16(SubSeq(color_values[k].htmlcolor, 5, 6)))]

IsDeclared(c) == \E k \in DOMAIN Declared : Declared[k] = c

(* What a.distance_from(b) returns in the current state. *)
Distance(a, b) == distance_from(Memo, a, b).result

Scanned ==
  /\ ret.op = "get_closest_color"
  /\ ret.color[4] # 0
  /\ ~ IsDeclared(ret.color)

(* C6: for a colour with non-zero alpha that is no palette entry,         *)
(* get_closest_color returns a palette colour whose distance to it is     *)
(* least among the palette colours, and of those at that least distance   *)
(* the one declared first.  In every state of Spec one palette colour     *)
(* alone is at the least distance of the colour scanned, so the last      *)
(* conjunct follows from the second here: the states say nothing about    *)
(* which of several nearest colours the scan returns.                     *)
C6_NearestIsFirstMinimum ==
  Scanned =>
    \E k \in DOMAIN Declared :
      /\ ret.value = Declared[k]
      /\ \A j \in DOMAIN Declared :
           Distance(Declared[j], ret.color) >= Distance(ret.value, ret.color)
      /\ \A j \in 1..(k - 1) :
           Distance(Declared[j], ret.color) > Distance(ret.value, ret.color)

(* A scan that returned a palette colour other than the first declared   *)
(* and other than the last, every other one being farther away.           *)
C6_Witness ==
  /\ Scanned
  /\ ret.value # Declared[1]
  /\ ret.value # Declared[Len(Declared)]
  /\ \A j \in DOMAIN Declared :
       Declared[j] # ret.value =>
         Distance(Declared[j], ret.color) > Distance(ret.value, ret.color)

(* Two palette colours at the least distance of the colour scanned: no    *)
(* state of Spec has them.                                                *)
C6_SeveralNearest ==
  /\ Scanned
  /\ \E j \in DOMAIN Declared :
       /\ Declared[j] # ret.value
       /\ Distance(Declared[j], ret.color) = Distance(ret.value, ret.color)

(* C7: whatever get_closest_color returns, for any alpha and any RGB, is  *)
(* a palette colour or the zero-alpha colour Color(0, 0, 0, 0), and       *)
(* get_closest_color maps it to itself.                                   *)
C7_NearestIsIdempotent ==
  ret.op = "get_closest_color" =>
    /\ IsDeclared(ret.value) \/ ret.value = Color(0, 0, 0, 0)
    /\ get_closest_color(ModuleLoad, Memo, ret.value).result = ret.value

(* A colour off the palette was snapped to a palette colour. *)
C7_Witness ==
  /\ Scanned
  /\ ret.color[4] = 128
  /\ ret.value # ret.color
  /\ IsDeclared(ret.value)

Unordered(key) == {key, <<key[2], key[1]>>}

RunsFor(key) == IF key \in DOMAIN calls THEN calls[key] ELSE 0

(* a.distance_from(b) followed by b.distance_from(a) *)
SameBothWays(a, b) ==
  LET first == distance_from(Memo, a, b)
      second == distance_from(first.memo, b, a)
  IN /\ first.result = second.result
     /\ second.memo.cache = first.memo.cache

(* C8: after any sequence of queries, a.distance_from(b) and              *)
(* b.distance_from(a) return the same value; delta_e_cie2000 has run at   *)
(* most once per unordered pair; the memo never holds both <<a, b>> and   *)
(* <<b, a>> for a # b; and a query returns the value the memo holds for   *)
(* the pair.                                                              *)
C8_DistanceIsSymmetricAndComputedOnce ==
  /\ \A a \in QueryColors, b \in QueryColors : SameBothWays(a, b)
  /\ \A key \in DOMAIN cache :
       /\ key[1] # key[2] => <<key[2], key[1]>> \notin DOMAIN cache
       /\ RunsFor(key) = 1
       /\ key[1] # key[2] => RunsFor(<<key[2], key[1]>>) = 0
  /\ DOMAIN calls \subseteq DOMAIN cache
  /\ ret.op = "distance_from" =>
       \E key \in Unordered(<<ret.self, ret.other>>) :
         key \in DOMAIN cache /\ cache[key] = ret.value

(* The pair was queried in both orders: the second query found the       *)
(* value under the key of the first and stored nothing.                   *)
C8_Witness ==
  /\ made = 2
  /\ ret.op = "distance_from"
  /\ ret.self # ret.other
  /\ <<ret.other, ret.self>> \in DOMAIN cache
  /\ <<ret.self, ret.other>> \notin DOMAIN cache
  /\ ret.value = cache[<<ret.other, ret.self>>]
  /\ RunsFor(<<ret.other, ret.self>>) = 1

(* C10 as stated: draw with fade succeeds and returns 9 rows of 9 pixels, *)
(* the pixel at (i, j) being faded() of the tile's colour at (i, j).      *)
C10_FadeDrawsFadedColours ==
  (ret.op = "Tile.draw" /\ ret.fade /\ ret.halo = None) =>
    /\ ret.exc = NoExc
    /\ Len(ret.value) = 9
    /\ \A i \in 1..9 : \A j \in 1..9 :
         SubSeq(ret.value[i], 4 * j - 3, 4 * j)
           = bytes(faded(TileAt(ModuleLoad, ret.tile).colors[i][j]))

---------------------------------------------------------------------------
(* MakeSubset, step by step.  An image file is what png.Reader reads of   *)
(* it: [width, height, pixels], pixels being the rows of RGBA bytes.  An  *)
(* optional argument is None or Given(v).                                 *)

Given(v) == <<v>>

(* x_len = p_width - x_start when it is not given *)
LenOr(len, n, start) == IF len = None THEN n - start ELSE len[1]

(* Lines 514-524: the lengths, the two asserts, and the input snapped to  *)
(* the palette and cut to the rectangle.                                  *)
ReadCut(a, x_len, y_len, snapped) ==
  [exc |-> NoExc,
   value |-> [p_width |-> a.png_in.width, p_height |-> a.png_in.height,
              x_len |-> x_len, y_len |-> y_len,
              color_pixels |-> CutRows(snapped.ans, a.x_start, x_len,
                                       a.y_start, y_len)],
   memo |-> snapped.memo]

ReadChecked(g, memo, a, x_len, y_len) ==
  IF ~ (a.x_start + x_len <= a.png_in.width)
    THEN [exc |-> "AssertionError", value |-> None, memo |-> memo]
  ELSE IF ~ (a.y_start + y_len <= a.png_in.height)
    THEN [exc |-> "AssertionError", value |-> None, memo |-> memo]
  ELSE ReadCut(a, x_len, y_len,
               AlphaLinesFrom(g, a.png_in.pixels,
                              [ans |-> <<>>, memo |-> memo], 1))

ReadInput(g, memo, a) ==
  ReadChecked(g, memo, a,
              LenOr(a.x_len, a.png_in.width, a.x_start),
              LenOr(a.y_len, a.png_in.height, a.y_start))

(* color_pixels[y][x] != diff_pixels[y][x], on Color.__eq__ *)
DiffCellIgnoresAlpha(color_pixels, diff_pixels, y, x) ==
  SubSeq(bytes(color_pixels[y + 1][x + 1]), 1, 3)
    # SubSeq(bytes(diff_pixels[y + 1][x + 1]), 1, 3)

DiffCell(color_pixels, diff_pixels, y, x) ==
  bytes(color_pixels[y + 1][x + 1]) # bytes(diff_pixels[y + 1][x + 1])

(* Lines 526-538: diff[y][x] for the cells of the rectangle. *)
DiffOf(l, diff_pixels) ==
  IF \E y \in 0..(l.y_len - 1), x \in 0..(l.x_len - 1) :
       ~ (y < Len(l.color_pixels) /\ x < Len(l.color_pixels[y + 1])
          /\ y < Len(diff_pixels) /\ x < Len(diff_pixels[y + 1]))
    THEN Raise("IndexError")
  ELSE Return([y \in 1..l.y_len |-> [x \in 1..l.x_len |->
                 DiffCell(l.color_pixels, diff_pixels, y - 1, x - 1)]])

DiffRead(r, memo) == [exc |-> r.exc, value |-> r.value, memo |-> memo]

DiffCut(a, l, snapped) ==
  DiffRead(DiffOf(l, CutRows(snapped.ans, a.x_start, l.x_len,
                             a.y_start, l.y_len)),
           snapped.memo)

ReadDiffBase(g, memo, a, l) ==
  IF a.diffbase_in = None
    THEN [exc |-> NoExc,
          value |-> [y \in 1..l.y_len |-> [x \in 1..l.x_len |-> FALSE]],
          memo |-> memo]
  ELSE IF a.diffbase_in[1].width # l.p_width
    THEN [exc |-> "AssertionError", value |-> None, memo |-> memo]
  ELSE IF a.diffbase_in[1].height # l.p_height
    THEN [exc |-> "AssertionError", value |-> None, memo |-> memo]
  ELSE DiffCut(a, l,
               AlphaLinesFrom(g, a.diffbase_in[1].pixels,
                              [ans |-> <<>>, memo |-> memo], 1))

(* Lines 546-548 for one cell. *)
PopulateCell(g, st, l, row, col) ==
  IF st.exc # NoExc THEN st
  ELSE IF ~ (row < Len(l.color_pixels) /\ col < Len(l.color_pixels[row + 1]))
    THEN [exc |-> "IndexError", value |-> st.value]
  ELSE IF getitem(g, l.color_pixels[row + 1][col + 1]).exc # NoExc
    THEN [exc |-> getitem(g, l.color_pixels[row + 1][col + 1]).exc,
          value |-> st.value]
  ELSE IF l.diff[row + 1][col + 1]
    THEN HaloInto(PlotInto(st, row + 4, col + 4,
                           getitem(g, l.color_pixels[row + 1][col + 1]).value),
                  row + 4, col + 4, red)
  ELSE PlotInto(st, row + 4, col + 4,
                getitem(g, l.color_pixels[row + 1][col + 1]).value)

(* Lines 544-548: the cells column by column; cell n is row n % y_len of  *)
(* column n \div y_len.  A length of 0 or less leaves nothing to plot.    *)
RECURSIVE PopulateFrom(_, _, _, _)
PopulateFrom(g, st, l, n) ==
  IF /\ Evaluated(st) /\ st.exc = NoExc
     /\ l.x_len > 0 /\ l.y_len > 0 /\ n < l.x_len * l.y_len
    THEN PopulateFrom(g, PopulateCell(g, st, l, n % l.y_len, n \div l.y_len),
                      l, n + 1)
  ELSE st

(* Lines 541-548 *)
Populate(g, l) == PopulateFrom(g, Return(Screen(l.x_len + 8, l.y_len + 8)), l, 0)

(* Lines 552-555 for one row of the rectangle. *)
RowLabel(g, st, a, l, i, wplace_y) ==
  IF wplace_y % 5 = 0 \/ i = 0 \/ i = l.y_len - 1
    THEN h_draw(g, h_draw(g, st, i + 4, 0, rjust(str(wplace_y), 4)),
                i + 4, l.x_len + 4, ljust(str(wplace_y), 4))
  ELSE st

RECURSIVE RowLabelsFrom(_, _, _, _, _)
RowLabelsFrom(g, st, a, l, i) ==
  IF Evaluated(st) /\ st.exc = NoExc /\ i < l.y_len
    THEN RowLabelsFrom(g, RowLabel(g, st, a, l, i, a.y_woff + a.y_start + i),
                       a, l, i + 1)
  ELSE st

(* Lines 557-560 for one column of the rectangle. *)
ColLabel(g, st, a, l, i, wplace_x) ==
  IF wplace_x % 5 = 0 \/ i = 0 \/ i = l.x_len - 1
    THEN v_draw(g, v_draw(g, st, 0, i + 4, rjust(str(wplace_x), 4)),
                l.y_len + 4, i + 4, ljust(str(wplace_x), 4))
  ELSE st

RECURSIVE ColLabelsFrom(_, _, _, _, _)
ColLabelsFrom(g, st, a, l, i) ==
  IF Evaluated(st) /\ st.exc = NoExc /\ i < l.x_len
    THEN ColLabelsFrom(g, ColLabel(g, st, a, l, i, a.x_woff + a.x_start + i),
                       a, l, i + 1)
  ELSE st

(* Lines 551-560 *)
Labels(g, screen, a, l) ==
  ColLabelsFrom(g, RowLabelsFrom(g, Return(screen), a, l, 0), a, l, 0)

(* Lines 567-568 for one position. *)
ExtsStep(st, start, stride, off, x) ==
  IF stride = 0 THEN [exc |-> "ZeroDivisionError", value |-> st.value]
  ELSE IF ModIsZero(x + start - off, stride)
    THEN Return(Append(st.value, x + 4))
  ELSE st

RECURSIVE ExtsFrom(_, _, _, _, _, _)
ExtsFrom(st, start, len, stride, off, x) ==
  IF Evaluated(st) /\ st.exc = NoExc /\ x < len - 1
    THEN ExtsFrom(ExtsStep(st, start, stride, off, x),
                  start, len, stride, off, x + 1)
  ELSE st

(* The separators with the positions 0..len - 1 all tried. *)
ExtsWithEdges(start, len, stride, off) ==
  ExtsFrom(Return(<<4, 4 + len>>), start, len + 1, stride, off, 0)

(* Lines 564/566-568, and 565/569-571: the separator list of one axis. *)
Exts(start, len, stride, off) ==
  ExtsFrom(Return(<<4, 4 + len>>), start, len, stride, off, 1)

---------------------------------------------------------------------------
(* The calls of MakeSubset that are made. *)

MaxImg == 4       \* input images are 1..MaxImg pixels a side

(* The pixel colours of the input images: palette colours, colours off    *)
(* the palette and a transparent pixel.                                   *)
Swatch ==
  <<RGB(1, 2, 3), RGB(0, 0, 0), Color(9, 9, 9, 0), RGB(237, 28, 36),
    RGB(255, 207, 0), RGB(255, 255, 255)>>

(* The image file whose pixel number n, counted row by row, has the       *)
(* swatch colour number n + seed.                                         *)
Image(width, height, seed) ==
  [width |-> width, height |-> height,
   pixels |-> [r \in 1..height |->
                 Concat([c \in 1..width |->
                           Swatch[((seed + (r - 1) * width + (c - 1))
                                     % Len(Swatch)) + 1]])]]

(* The image with the pixel at row y, column x replaced. *)
Repainted(image, y, x, color) ==
  [image EXCEPT !.pixels[y + 1] =
     [k \in DOMAIN @ |->
        IF 4 * x < k /\ k <= 4 * x + 4 THEN color[k - 4 * x] ELSE @[k]]]

ImageSizes ==
  {<<n, n>> : n \in 1..MaxImg} \cup {<<MaxImg, 2>>}

Axis(start, len, woff, stride, stride_off) ==
  [start |-> start, len |-> len, woff |-> woff, stride |-> stride,
   stride_off |-> stride_off]

(* The arguments of one axis left at their defaults. *)
PlainAxis == Axis(0, None, 0, 8, 0)

(* Rectangles inside the image, one cell too long, and one that starts   *)
(* past the image, whose default length is negative.                      *)
RectAxes(n) ==
  {Axis(start, len, 0, 8, 0) :
     start \in {0, 1},
     len \in {None, Given(1), Given(n - 1), Given(n)}}
    \cup {Axis(n + 1, None, 0, 8, 0)}

(* World offsets whose labels have 1 to 5 characters. *)
LabelAxes ==
  {Axis(0, None, woff, 8, 0) : woff \in {-3, 96, 9996, -1001}}
    \cup {Axis(1, None, 9998, 8, 0)}

StrideAxes ==
  {Axis(start, None, 0, stride, stride_off) :
     start \in {0, 1}, stride \in {1, 2, 3}, stride_off \in {0, 1}}
    \cup {Axis(0, None, 0, 0, 0)}

AxisPairs(width, height) ==
  {p \in (RectAxes(width) \cup LabelAxes \cup StrideAxes)
           \X (RectAxes(height) \cup LabelAxes \cup StrideAxes) :
     \/ p[1] = PlainAxis
     \/ p[2] = PlainAxis
     \/ p[1] = p[2]}

(* Diff bases of an image: none, the image itself, one with every pixel   *)
(* changed, one with one pixel changed, and two of other dimensions.      *)
DiffBases(width, height) ==
  {None,
   Given(Image(width, height, 0)),
   Given(Image(width, height, 1)),
   Given(Repainted(Image(width, height, 0), height - 1, width - 1,
                   RGB(120, 120, 120))),
   Given(Image(width + 1, height, 0)),
   Given(Image(width, height + 1, 0))}

Call(image, diffbase, ax, ay) ==
  [png_in |-> image, diffbase_in |-> diffbase,
   x_start |-> ax.start, x_len |-> ax.len,
   y_start |-> ay.start, y_len |-> ay.len,
   x_woff |-> ax.woff, y_woff |-> ay.woff,
   xstride |-> ax.stride, ystride |-> ay.stride,
   xstride_off |-> ax.stride_off, ystride_off |-> ay.stride_off]

(* The example of the documentation: a 10 x 10 image with strides of 5. *)
StrideExample ==
  Call(Image(10, 10, 0), None, Axis(0, None, 0, 5, 0), Axis(0, None, 0, 5, 0))

CallsOn(width, height, p) ==
  {Call(Image(width, height, 0), diffbase, p[1], p[2]) :
     diffbase \in IF \A k \in {1, 2} : p[k].woff = 0 /\ p[k].stride = 8
                    THEN DiffBases(width, height) ELSE {None}}

(* The calls made: the example, a call whose lengths, -10 and 0, make a  *)
(* Screen of negative width, and the calls on the images of each size.    *)
SubsetCalls ==
  {StrideExample,
   Call(Image(3, 3, 0), None,
        Axis(0, Given(-10), 0, 8, 0), Axis(0, Given(0), 0, 8, 0))} \cup
  UNION {UNION {CallsOn(size[1], size[2], p) :
                  p \in AxisPairs(size[1], size[2])} :
         size \in ImageSizes}

---------------------------------------------------------------------------
(* One call of MakeSubset in a process: the module is loaded, the output  *)
(* path names no file or an existing one.                                 *)

SubsetStarted(g) ==
  /\ cache = g.memo.cache
  /\ calls = g.memo.calls

InitSubset ==
  /\ SubsetStarted(ModuleLoad)
  /\ scr = None
  /\ ret = Idle
  /\ pc = "idle"
  /\ args = NoCall
  /\ loc = NoCall
  /\ outfile \in {[state |-> "absent"], [state |-> "existing"]}
  /\ made = 0

(* The call of MakeSubset with the arguments a; a process makes one. *)
MakeSubsetCall(a) ==
  /\ pc = "idle"
  /\ ret = Idle
  /\ args' = a
  /\ pc' = "open"
  /\ UNCHANGED <<cache, calls, scr, ret, loc, outfile, made>>

(* Line 513: open(png_out, "wb") creates the file, or empties it. *)
Open ==
  /\ pc = "open"
  /\ outfile' = [state |-> "empty"]
  /\ pc' = "read"
  /\ UNCHANGED <<cache, calls, scr, ret, args, loc, made>>

(* An exception leaves the with block, which closes the file, and the call. *)
Raised(e) ==
  /\ ret' = [op |-> "MakeSubset", exc |-> e, value |-> None]
  /\ pc' = "idle"

(* Lines 514-524 *)
InputRead(r) ==
  /\ IF r.exc # NoExc
       THEN Raised(r.exc) /\ UNCHANGED loc
     ELSE pc' = "diff" /\ loc' = r.value /\ UNCHANGED ret
  /\ cache' = r.memo.cache
  /\ calls' = r.memo.calls

StepReadInput ==
  /\ pc = "read"
  /\ InputRead(ReadInput(ModuleLoad, Memo, args))
  /\ UNCHANGED <<scr, args, outfile, made>>

(* Lines 526-538 *)
DiffBaseRead(r) ==
  /\ IF r.exc # NoExc
       THEN Raised(r.exc) /\ UNCHANGED loc
     ELSE /\ pc' = "populate"
          /\ loc' = [p_width |-> loc.p_width, p_height |-> loc.p_height,
                     x_len |-> loc.x_len, y_len |-> loc.y_len,
                     color_pixels |-> loc.color_pixels, diff |-> r.value]
          /\ UNCHANGED ret
  /\ cache' = r.memo.cache
  /\ calls' = r.memo.calls

StepReadDiffBase ==
  /\ pc = "diff"
  /\ DiffBaseRead(ReadDiffBase(ModuleLoad, Memo, args, loc))
  /\ UNCHANGED <<scr, args, outfile, made>>

(* Lines 541-548 *)
ScreenPopulated(r) ==
  /\ IF r.exc # NoExc THEN Raised(r.exc) ELSE pc' = "labels" /\ UNCHANGED ret
  /\ scr' = r.value

StepPopulate ==
  /\ pc = "populate"
  /\ ScreenPopulated(Populate(ModuleLoad, loc))
  /\ UNCHANGED <<cache, calls, args, loc, outfile, made>>

(* Lines 551-560; the Screen is kept as the last plot left it. *)
Labelled(r) ==
  /\ IF r.exc # NoExc THEN Raised(r.exc) ELSE pc' = "separators" /\ UNCHANGED ret
  /\ scr' = r.value

StepLabels ==
  /\ pc = "labels"
  /\ Labelled(Labels(ModuleLoad, scr, args, loc))
  /\ UNCHANGED <<cache, calls, args, loc, outfile, made>>

(* Lines 564-571: hexts in full, then vexts. *)
Separated(h, v) ==
  IF h.exc # NoExc THEN Raised(h.exc) /\ UNCHANGED loc
  ELSE IF v.exc # NoExc THEN Raised(v.exc) /\ UNCHANGED loc
  ELSE /\ pc' = "write"
       /\ loc' = [x_len |-> loc.x_len, y_len |-> loc.y_len,
                  hexts |-> h.value, vexts |-> v.value]
       /\ UNCHANGED ret

StepSeparators ==
  /\ pc = "separators"
  /\ Separated(Exts(args.x_start, loc.x_len, args.xstride, args.xstride_off),
               Exts(args.y_start, loc.y_len, args.ystride, args.ystride_off))
  /\ UNCHANGED <<cache, calls, scr, args, outfile, made>>

(* Line 573, and the return of the call. *)
Composed(r) ==
  /\ ret' = [op |-> "MakeSubset", exc |-> r.exc, value |-> None]
  /\ outfile' = r.file
  /\ pc' = "idle"

StepWrite ==
  /\ pc = "write"
  /\ Composed(write_png(ModuleLoad, scr, outfile, loc.hexts, loc.vexts))
  /\ UNCHANGED <<cache, calls, scr, args, loc, made>>

NextSubset ==
  \/ \E a \in SubsetCalls : MakeSubsetCall(a)
  \/ Open
  \/ StepReadInput
  \/ StepReadDiffBase
  \/ StepPopulate
  \/ StepLabels
  \/ StepSeparators
  \/ StepWrite

SpecSubset == InitSubset /\ [][NextSubset]_vars

---------------------------------------------------------------------------
(* Properties of MakeSubset. *)

(* The rectangle asked for does not fit the input image. *)
RectangleViolated(a) ==
  \/ a.x_start + LenOr(a.x_len, a.png_in.width, a.x_start) > a.png_in.width
  \/ a.y_start + LenOr(a.y_len, a.png_in.height, a.y_start) > a.png_in.height

(* The diff base has other dimensions than the input image. *)
DiffBaseMismatch(a) ==
  /\ a.diffbase_in # None
  /\ \/ a.diffbase_in[1].width # a.png_in.width
     \/ a.diffbase_in[1].height # a.png_in.height

Finished == pc = "idle" /\ ret.op = "MakeSubset"

(* C2 as stated: a call of MakeSubset with a rectangle that does not fit  *)
(* the image, or with a diff base of other dimensions, fails with the     *)
(* output path as it was before the call: no file created, an existing    *)
(* file not emptied.                                                      *)
C2_RejectedCallLeavesNoFile ==
  (Finished /\ (RectangleViolated(args) \/ DiffBaseMismatch(args))) =>
    /\ ret.exc = "AssertionError"
    /\ outfile.state \in {"absent", "existing"}

(* The Screen of the call is populated. *)
ScreenPopulatedNow == pc \in {"labels", "separators", "write"}

(* The colour of the pixel at row y, column x of an image file. *)
PixelColor(image, y, x) ==
  Color(image.pixels[y + 1][4 * x + 1], image.pixels[y + 1][4 * x + 2],
        image.pixels[y + 1][4 * x + 3], image.pixels[y + 1][4 * x + 4])

(* The palette colour that pixel is snapped to in a fresh process. *)
Resolved(g, image, y, x) ==
  get_closest_color(g, g.memo, PixelColor(image, y, x)).result

(* Cell (row, col) of the Screen is a content cell whose pixel differs    *)
(* from the diff base's once both are snapped to the palette.             *)
Differs(g, a, x_len, y_len, row, col) ==
  /\ a.diffbase_in # None
  /\ 4 <= row /\ row < y_len + 4
  /\ 4 <= col /\ col < x_len + 4
  /\ Resolved(g, a.png_in, a.y_start + row - 4, a.x_start + col - 4)
       # Resolved(g, a.diffbase_in[1], a.y_start + row - 4, a.x_start + col - 4)

HalosAsExpected(g) ==
  \A row \in 0..(scr.height - 1), col \in 0..(scr.width - 1) :
    /\ scr.halo[row + 1][col + 1] \in {None, red}
    /\ scr.halo[row + 1][col + 1] = red
         <=> Differs(g, args, loc.x_len, loc.y_len, row, col)

HaloedCells ==
  {cell \in (0..(scr.height - 1)) \X (0..(scr.width - 1)) :
     scr.halo[cell[1] + 1][cell[2] + 1] = red}

(* C4: once the Screen is populated, a cell has the red halo exactly when *)
(* it is a content cell (r + 4, c + 4) of the rectangle whose source      *)
(* pixel and diff-base pixel at (y_start + r, x_start + c) snap to        *)
(* different palette colours; margin cells have none, and without a diff  *)
(* base no cell has one.                                                  *)
C4_HaloIffSnappedColoursDiffer ==
  ScreenPopulatedNow => HalosAsExpected(ModuleLoad)

(* A diff base that differs in one pixel of the rectangle, and in no      *)
(* other: one cell is haloed, the cell of that pixel.                     *)
C4_Witness ==
  /\ pc = "labels"
  /\ args.diffbase_in # None
  /\ loc.x_len >= 2
  /\ HaloedCells = {<<loc.y_len + 3, loc.x_len + 3>>}

(* The separator positions of one axis, as the documentation gives them. *)
SeparatorSet(start, len, stride, off) ==
  {4, 4 + len}
    \cup {i + 4 : i \in {j \in 1..(len - 2) : (j + start - off) % stride = 0}}

Range(s) == {s[i] : i \in DOMAIN s}

(* C5: the column separators handed to write_png are 4, 4 + x_len and the *)
(* positions i + 4 for 1 <= i <= x_len - 2 with                           *)
(* (i + x_start - xstride_off) mod xstride = 0, and likewise the row      *)
(* separators; content index 0 and x_len - 1 add none.  For a 10 x 10     *)
(* rectangle at 0, 0 with strides 5 and offsets 0 they are 4, 9 and 14.   *)
C5_SeparatorsAreBordersAndInteriorStrides ==
  pc = "write" =>
    /\ Range(loc.hexts) = SeparatorSet(args.x_start, loc.x_len,
                                       args.xstride, args.xstride_off)
    /\ Range(loc.vexts) = SeparatorSet(args.y_start, loc.y_len,
                                       args.ystride, args.ystride_off)
    /\ args = StrideExample =>
         Range(loc.hexts) = {4, 9, 14} /\ Range(loc.vexts) = {4, 9, 14}

(* A stride position falls on the last content index and adds nothing,    *)
(* one falls inside and is added.                                         *)
C5_Witness ==
  /\ pc = "write"
  /\ loc.x_len = 4
  /\ args.xstride = 1
  /\ Range(loc.hexts) = {4, 5, 6, 8}

(* The tile of a content cell is a palette tile or the transparent tile. *)
IsContentTile(ref) == ref.of \in {"color_map", "transparent"}

(* The Screen exists: it is populated, or the call ended after that. *)
HasScreen ==
  \/ ScreenPopulatedNow
  \/ Finished /\ ret.exc \in {NoExc, "IndexError", "ZeroDivisionError"}

(* C9 as stated: whatever the world offsets, stamping the labels never    *)
(* indexes outside the Screen and leaves every content cell (rows         *)
(* 4..y_len + 3, columns 4..x_len + 3) with the tile plotted for its      *)
(* pixel.                                                                 *)
C9_LabelsKeepToTheMargin ==
  /\ Finished => ret.exc # "IndexError"
  /\ HasScreen =>
       \A row \in 4..(scr.height - 5), col \in 4..(scr.width - 5) :
         IsContentTile(scr.tiles[row + 1][col + 1])

NoDuplicates(s) == \A i \in DOMAIN s, j \in DOMAIN s : s[i] = s[j] => i = j

(* The call got past its asserts with strides of 1 or more. *)
Accepted(a) ==
  /\ ~ RectangleViolated(a)
  /\ ~ DiffBaseMismatch(a)
  /\ a.xstride >= 1
  /\ a.ystride >= 1

(* The separator lists are built, or were and the call has ended. *)
SeparatorsBuilt == pc = "write" \/ (Finished /\ ret.exc = NoExc)

(* The output file holds the buffer of the size write_png declared for    *)
(* the Screen and the separator lists of the call.                        *)
WrittenAsDeclared ==
  /\ outfile.state = "written"
  /\ outfile.width = (loc.x_len + 8) * 9 + 2 * Len(loc.hexts)
  /\ outfile.height = (loc.y_len + 8) * 9 + 2 * Len(loc.vexts)
  /\ HasSize(outfile.rows, outfile.width, outfile.height)

(* C11 as stated: for every accepted call with x_len >= 0 and y_len >= 0  *)
(* the separator lists handed to write_png hold no position twice, every  *)
(* position is strictly inside the Screen, and the buffer written has the *)
(* declared size.                                                         *)
C11_SeparatorsDistinctAndInterior ==
  (SeparatorsBuilt /\ Accepted(args) /\ loc.x_len >= 0 /\ loc.y_len >= 0) =>
    /\ NoDuplicates(loc.hexts)
    /\ NoDuplicates(loc.vexts)
    /\ Interior(loc.hexts, loc.x_len + 8)
    /\ Interior(loc.vexts, loc.y_len + 8)
    /\ Finished => WrittenAsDeclared

(* C11: for every accepted call with x_len >= 0 and y_len >= 0 every      *)
(* position of the separator lists handed to write_png is strictly inside *)
(* the Screen, write_png raises nothing and the buffer written has the    *)
(* declared size (the only exception of such a call is the IndexError of  *)
(* a label, before the lists are built); a list holds no position twice   *)
(* exactly when its length is 1 or more: for a length of 0 it is [4, 4].  *)
C11_SeparatorsInteriorDistinctUnlessEmpty ==
  /\ (SeparatorsBuilt /\ Accepted(args) /\ loc.x_len >= 0 /\ loc.y_len >= 0) =>
       /\ NoDuplicates(loc.hexts) <=> loc.x_len >= 1
       /\ NoDuplicates(loc.vexts) <=> loc.y_len >= 1
       /\ loc.x_len = 0 => loc.hexts = <<4, 4>>
       /\ loc.y_len = 0 => loc.vexts = <<4, 4>>
       /\ Interior(loc.hexts, loc.x_len + 8)
       /\ Interior(loc.vexts, loc.y_len + 8)
       /\ Finished => WrittenAsDeclared
  /\ (Finished /\ Accepted(args) /\ loc.x_len >= 0 /\ loc.y_len >= 0) =>
       ret.exc \in {NoExc, "IndexError"}

(* A call for a rectangle of width 0 has ended: the column separators     *)
(* were [4, 4] and the file is 8 * 9 + 4 pixels wide.                     *)
C11_Witness ==
  /\ Finished
  /\ ret.exc = NoExc
  /\ Accepted(args)
  /\ loc.x_len = 0
  /\ loc.hexts = <<4, 4>>
  /\ outfile.state = "written"
  /\ outfile.width = 76

=============================================================================
